---------------------------- MODULE Spec2Model ----------------------------
(***************************************************************************)
(* KTXgo (ktxgo/cli.py, ktxgo/korail.py): the polling loop of main, the    *)
(* target resolver, the seat eligibility rules, the login-status probe,    *)
(* manual login and the payment context of pay.                            *)
(*                                                                         *)
(* Spec        the polling loop of main (cli.py 1093-1174), one action per *)
(*             vendor call outcome, each carrying the code that runs up to *)
(*             the next vendor call; listings, selected trains and seat    *)
(*             preference vary.                                            *)
(* SpecErrors  the same loop over longer runs of failing searches.         *)
(* SpecBudget  the same loop with --max-attempts N > 0, under fairness of  *)
(*             main's steps.                                               *)
(* SpecPure    the pure helpers, applied to inputs drawn from bounded sets.*)
(* SpecProbe   is_logged_in and login_profile (korail.py 321-390), applied *)
(*             to every answer of the login-status probe in LoginBodies.   *)
(* SpecLogin   login_manual and wait_for_login_stable (korail.py 173-215), *)
(*             one action per probe, with a clock.                         *)
(* SpecPay     pay (korail.py 589-760): the hydration of the payment       *)
(*             context, one action per vendor call outcome.                *)
(* SpecVendor  _api_call, _do_pay, search, reservations() and tickets()   *)
(*             (cli.py 852-899, korail.py 124-171, 217-266, 392-587),      *)
(*             applied to the outcomes of their vendor calls.              *)
(* SpecSession main and _ensure_login (cli.py 712-747, 1050-1062): browser *)
(*             sessions, probes and the requests issued on them.           *)
(***************************************************************************)
EXTENDS Integers, Sequences, FiniteSets, TLC

(***************************************************************************)
(* Bounds of the model.                                                    *)
(***************************************************************************)
\* longest listing a search returns
MaxListing == 2
\* longest list of caller-selected target keys
MaxTargets == 2
\* largest positive --max-attempts value explored
MaxBudget == 2
\* searches explored per run where the listings vary (Spec)
MaxPolls == 2
\* searches explored per run where the errors vary (SpecErrors)
MaxIter == 6
\* largest timeout_s, in seconds, login_manual is called with (SpecLogin)
MaxTimeout == 2
\* longest list of legs (train_info) of a journey (SpecPay)
MaxLegs == 2
\* requests of one run in SpecSession
MaxRequests == 4

(***************************************************************************)
(* Program constants.                                                      *)
(***************************************************************************)
RSV_AVAILABLE == "11"
RSV_SOLD_OUT == "13"
RSV_WAITING == "09"
SESSION_EXPIRED_CODES == {"P058", "WRT300004", "WRD000003"}
\* cli.py 1112: if consecutive_errors >= 5
ErrorCap == 5

(***************************************************************************)
(* Optional values: None is the empty set, a present value a singleton.    *)
(***************************************************************************)
None == {}
Some(x) == {x}
The(o) == CHOOSE x \in o : TRUE

(***************************************************************************)
(* Train (korail.py 36-70).  raw is the normalized vendor row: a function  *)
(* from the keys the row carried to their string values.                   *)
(***************************************************************************)
NoRaw == [k \in {} |-> ""]
StandingRaw(code) == [k \in {"h_stnd_rsv_cd"} |-> code]
WaitingRaw(code) == [k \in {"h_wait_rsv_flg"} |-> code]

RawGet(raw, key, default) == IF key \in DOMAIN raw THEN raw[key] ELSE default

MkTrain(no, tm, gen, spe, raw) ==
    [train_no |-> no, dep_time |-> tm, dep_date |-> "20260101",
     departure |-> "Seoul", arrival |-> "Busan",
     general_code |-> gen, special_code |-> spe, raw |-> raw]

has_general(train) == train.general_code = RSV_AVAILABLE

has_special(train) == train.special_code = RSV_AVAILABLE

has_any_seat_GeneralOnly(train) == has_general(train)
has_any_seat(train) == has_general(train) \/ has_special(train)

has_standing(train) == RawGet(train.raw, "h_stnd_rsv_cd", "") = RSV_AVAILABLE

\* cli.py 83-90
train_key(train) ==
    <<train.dep_date, train.train_no, train.dep_time, train.departure, train.arrival>>

\* cli.py 654-661
seat_available(train, seat_pref) ==
    IF seat_pref = "general" THEN has_general(train)
    ELSE IF seat_pref = "special" THEN has_special(train)
    ELSE IF seat_pref = "standing" THEN has_standing(train)
    ELSE has_any_seat(train)

pick_seat_AlwaysGeneral(train, seat_pref) == "general"
\* cli.py 664-673
pick_seat(train, seat_pref) ==
    IF seat_pref = "general" THEN "general"
    ELSE IF seat_pref = "special" THEN "special"
    ELSE IF seat_pref = "standing" THEN "general"
    ELSE IF has_general(train) THEN "general"
    ELSE "special"

(***************************************************************************)
(* _resolve_targets (cli.py 481-491).  train_by_key is a dict built by a   *)
(* comprehension over the listing: a later row replaces an earlier row of  *)
(* the same key.                                                           *)
(***************************************************************************)
KeyPresent(trains, key) == \E i \in DOMAIN trains : train_key(trains[i]) = key

train_by_key(trains, key) ==
    LET last == CHOOSE i \in DOMAIN trains :
                   /\ train_key(trains[i]) = key
                   /\ \A j \in DOMAIN trains : train_key(trains[j]) = key => j <= i
    IN trains[last]

RECURSIVE resolve_loop(_, _, _, _, _)
resolve_loop(trains, targets, i, found, missing) ==
    IF i > Len(targets) THEN [found |-> found, missing |-> missing]
    ELSE IF ~KeyPresent(trains, targets[i])
         THEN resolve_loop(trains, targets, i + 1, found, missing + 1)
         ELSE resolve_loop(trains, targets, i + 1,
                           Append(found, train_by_key(trains, targets[i])), missing)

resolve_targets_ListingOrder(trains, targets) ==
    LET hit(t) == \E i \in DOMAIN targets : targets[i] = train_key(t)
        absent == {i \in DOMAIN targets : ~KeyPresent(trains, targets[i])}
    IN [found |-> SelectSeq(trains, hit), missing |-> Cardinality(absent)]
resolve_targets(trains, targets) == resolve_loop(trains, targets, 1, <<>>, 0)


Min(S) == CHOOSE x \in S : \A y \in S : x <= y

(***************************************************************************)
(* Vendor responses (korail.py 124-171).  The body of a response is empty, *)
(* not JSON, JSON that is not an object, or a JSON object: a function from *)
(* the keys it carries to their string values.  Message texts are written  *)
(* romanised: "rogeuin jeongboga eopsseumnida" is the vendor's "no login   *)
(* information" message, "rogeuin" its word for login, "eops" for none,    *)
(* "yeyak" for reservation, "oryu" for error, "silpae" for failure and     *)
(* "bulga" for not possible.                                               *)
(***************************************************************************)
Absent == "<absent>"

\* the object holding the fields of rec whose value is not Absent
MkDict(rec) == [k \in {f \in DOMAIN rec : rec[f] # Absent} |-> rec[k]]

\* dict.get(key, default)
DictGet(d, key, default) == IF key \in DOMAIN d THEN d[key] ELSE default

Or_Right(a, b) == b
\* a or b, on strings
Or(a, b) == IF a # "" THEN a ELSE b

\* str.strip() on the values the model draws
Strip(s) ==
    CASE s = " " -> ""
      [] s = " 1234 " -> "1234"
      [] s = " W2 " -> "W2"
      [] s = " P100 " -> "P100"
      [] s = " gyeolje oryu " -> "gyeolje oryu"
      [] OTHER -> s

\* str.upper() on the values the model draws
Upper(s) ==
    CASE s = "y" -> "Y"
      [] s = "n" -> "N"
      [] s = "true" -> "TRUE"
      [] s = "false" -> "FALSE"
      [] OTHER -> s

\* the texts a message holds as a substring, among those the code looks for
Fragments(msg) ==
    CASE msg = "rogeuin jeongboga eopsseumnida" ->
             {"rogeuin jeongboga eopsseumnida", "rogeuin", "eops"}
      [] msg = "rogeuin sesyeoni eopseum" -> {"rogeuin", "eops"}
      [] msg = "rogeuin doeeotseumnida" -> {"rogeuin"}
      [] msg = "johoe gyeolgwaga eopsseumnida" -> {"eops"}
      [] msg = "yeyak naeyeogi eopsseumnida" -> {"yeyak", "eops"}
      [] msg = "yeyak hwagin jung" -> {"yeyak"}
      [] msg = "gyeolje oryu" -> {"oryu"}
      [] msg = "seungin silpae" -> {"silpae"}
      [] msg = "gyeolje bulga" -> {"bulga"}
      [] msg = "invalid card" -> {"invalid"}
      [] msg = "server error" -> {"error"}
      [] msg = "daegi ganeung" -> {"ganeung"}
      [] msg = "daegi magam" -> {"magam"}
      [] OTHER -> {}

\* part in msg
Contains(msg, part) == part \in Fragments(msg)

\* korail.py 114: the waiting code from_schedule reads from the row
waiting_code(train) ==
    RawGet(train.raw, "h_wait_rsv_flg", RawGet(train.raw, "h_wait_rsv_cd", ""))

\* korail.py 75-76: a code of digits is filled to two places (codes of the model)
zfill2(code) == IF code = "9" THEN "09" ELSE code

\* korail.py 72-86; waiting_seat is the row's h_wait_rsv_nm ("ganeung" is the
\* vendor's word for possible, "magam" its word for closed)
has_waiting_list(train) ==
    LET code == Strip(waiting_code(train))
        name == Strip(RawGet(train.raw, "h_wait_rsv_nm", ""))
    IN IF zfill2(code) = RSV_WAITING THEN TRUE
       ELSE IF name = "" THEN FALSE
       ELSE /\ Contains(name, "ganeung")
            /\ ~(Contains(name, "bulga") \/ Contains(name, "eops")
                   \/ Contains(name, "magam"))

BodyEmpty == [kind |-> "empty"]
BodyNotJson == [kind |-> "not_json"]
BodyNotObject == [kind |-> "not_object"]
BodyObject(d) == [kind |-> "object", data |-> d]

KorailError(msg, code) == [ok |-> FALSE, msg |-> msg, code |-> code]
Returned(d) == [ok |-> TRUE, data |-> d]

api_call_Lenient(body) ==
    IF body.kind = "object" THEN Returned(body.data)
    ELSE KorailError("Empty response", "")
\* korail.py 146-171: what _api_call makes of the body the fetch returned
api_call(body) ==
    IF body.kind = "empty" THEN KorailError("Empty response", "")
    ELSE IF body.kind = "not_json" THEN KorailError("Invalid JSON", "")
    ELSE IF body.kind = "not_object" THEN KorailError("Unexpected JSON payload", "")
    ELSE IF DictGet(body.data, "strResult", "") = "FAIL"
         THEN KorailError(Or(DictGet(body.data, "h_msg_txt", ""),
                             Or(DictGet(body.data, "message", ""), "Korail API failed")),
                          Or(DictGet(body.data, "h_msg_cd", ""),
                             DictGet(body.data, "code", "")))
    ELSE Returned(body.data)

(***************************************************************************)
(* The login-status probe (korail.py 321-390).                             *)
(***************************************************************************)
HasNoLoginMarker_LiteralOnly(msg) == Contains(msg, "rogeuin jeongboga eopsseumnida")
\* korail.py 330, 357
HasNoLoginMarker(msg) ==
    \/ Contains(msg, "rogeuin jeongboga eopsseumnida")
    \/ (Contains(msg, "rogeuin") /\ Contains(msg, "eops"))

\* korail.py 338, 345, 363: value and value not in {"N", "FALSE", "0"}
Placeholders == {"N", "FALSE", "0"}
Positive(value) == value # "" /\ value \notin Placeholders

SUCCESS_FLAGS_None == {}
\* korail.py 334, 381
SUCCESS_FLAGS == {"SUCC", "SUCCESS", "Y"}

\* korail.py 321-347
is_logged_in(body) ==
    LET r == api_call(body)
    IN IF ~r.ok THEN FALSE
       ELSE LET data == r.data
                msg == Strip(DictGet(data, "h_msg_txt", ""))
            IN IF HasNoLoginMarker(msg) THEN FALSE
               ELSE IF DictGet(data, "strResult", Absent) \in SUCCESS_FLAGS
                    THEN IF \E key \in {"strMbCrdNo", "strCustNm", "mbCrdNo"} :
                               Positive(Strip(DictGet(data, key, "")))
                         THEN TRUE
                         ELSE TRUE  \* korail.py 340-341
                    ELSE \E key \in {"loginYn", "isLogin"} :
                            Positive(Upper(Strip(DictGet(data, key, ""))))

first_positive_Nothing(data, keys) == ""
\* korail.py 360-378: the first value of the keys, in order, that is present
\* and not a placeholder, or ""
first_positive(data, keys) ==
    LET hits == {i \in DOMAIN keys : Positive(Strip(DictGet(data, keys[i], "")))}
    IN IF hits = {} THEN "" ELSE Strip(DictGet(data, keys[Min(hits)], ""))

MEMBER_NO_KEYS == <<"strMbCrdNo", "mbCrdNo", "strCustNo", "custNo">>
NAME_KEYS == <<"strCustNm", "custNm", "h_cust_nm", "strUserNm">>
LOGIN_ID_KEYS == <<"strCustId", "custId", "userId">>

\* korail.py 349-390; None is the empty set, a profile a singleton
login_profile(body) ==
    LET r == api_call(body)
    IN IF ~r.ok THEN None
       ELSE LET data == r.data
                msg == Strip(DictGet(data, "h_msg_txt", ""))
                member_no == first_positive(data, MEMBER_NO_KEYS)
                name == first_positive(data, NAME_KEYS)
                login_id == first_positive(data, LOGIN_ID_KEYS)
            IN IF HasNoLoginMarker(msg) THEN None
               ELSE IF member_no = "" /\ name = "" /\ login_id = ""
                    THEN IF DictGet(data, "strResult", Absent) \in SUCCESS_FLAGS
                         THEN Some([member_no |-> "", name |-> "", login_id |-> ""])
                         ELSE None
                    ELSE Some([member_no |-> member_no, name |-> name,
                               login_id |-> login_id])

(***************************************************************************)
(* KorailAPI.pay (korail.py 589-760): the payment context and its          *)
(* hydration from the reservation response and the reservation endpoints.  *)
(* A payload is its own fields and jrny_infos; jrny_infos and train_infos  *)
(* are a dict holding jrny_info / train_info, or something else; jrny_info *)
(* and train_info are a dict, a list of dicts, or something else.          *)
(***************************************************************************)
EmptyDict == [k \in {} |-> ""]

\* korail.py 624-625, on the values the model draws
digit_only(s) ==
    CASE s = "45,600" -> "45600"
      [] s = "n/a" -> ""
      [] OTHER -> s

ShapeOther == [shape |-> "other"]
ShapeDict(d) == [shape |-> "dict", item |-> d]
ShapeList(ds) == [shape |-> "list", items |-> ds]

NotDict == [is_dict |-> FALSE]
Infos(v) == [is_dict |-> TRUE, info |-> v]

MkJrny(fields, train_infos) == [fields |-> fields, train_infos |-> train_infos]
MkPayload(fields, jrny_infos) == [fields |-> fields, jrny_infos |-> jrny_infos]

\* an element of a JSON list that is not an object (a string, a number, null)
NotAnObject == [k \in {"<not an object>"} |-> ""]
IsObject(x) == "<not an object>" \notin DOMAIN x

\* the elements of a list that are objects, in order
RECURSIVE object_rows(_, _)
object_rows(rows, i) ==
    IF i > Len(rows) THEN <<>>
    ELSE (IF IsObject(rows[i]) THEN <<rows[i]>> ELSE <<>>) \o object_rows(rows, i + 1)

\* korail.py 627-636
dict_items(v) ==
    IF v.shape = "dict" THEN <<v.item>>
    ELSE IF v.shape # "list" THEN <<>>
    ELSE object_rows(v.items, 1)

MissingPrice_Never(v) == FALSE
\* korail.py 645, 704, 721, 730: not price or price == "0"
MissingPrice(v) == v = "" \/ v = "0"

MissingPnr_Never(v) == FALSE
\* korail.py 613: not pnr_no
MissingPnr(v) == v = ""

MissingId_Always(v) == TRUE
\* korail.py 652, 659, 705-706, 732: not wct_no, not rsv_chg_no
MissingId(v) == v = ""

\* korail.py 666, 671, 707-708
MissingSqno(v) == v \in {"", "000000"}

\* korail.py 648
UsableAmount(v) == v # "" /\ v # "0"

\* korail.py 655, 662, 668, 673
UsableText(v) == v # ""

\* korail.py 646-650: the digits of the first key, in order, that are usable,
\* or ""
first_amount(item, keys) ==
    LET hits == {i \in DOMAIN keys : UsableAmount(digit_only(DictGet(item, keys[i], "")))}
    IN IF hits = {} THEN "" ELSE digit_only(DictGet(item, keys[Min(hits)], ""))

\* korail.py 653-657, 660-664: the stripped value of the first key, in order,
\* that is not empty, or ""
first_text(item, keys) ==
    LET hits == {i \in DOMAIN keys : UsableText(Strip(DictGet(item, keys[i], "")))}
    IN IF hits = {} THEN "" ELSE Strip(DictGet(item, keys[Min(hits)], ""))

AMOUNT_KEYS == <<"h_rsv_amt", "h_rcvd_amt", "hidPayAmount">>
WCT_KEYS == <<"h_wct_no", "hidWctNo">>
RSV_CHG_KEYS == <<"h_rsv_chg_no", "hidRsvChgNo">>

PnrMismatch_Never(item, pnr) == FALSE
\* korail.py 641-643
PnrMismatch(item, pnr) ==
    LET item_pnr == Strip(DictGet(item, "h_pnr_no", DictGet(item, "hidPnrNo", "")))
    IN item_pnr # "" /\ item_pnr # pnr

\* korail.py 638-674, on the context c
hydrate_from_item(c, item, require_pnr) ==
    LET amount == first_amount(item, AMOUNT_KEYS)
        wct == first_text(item, WCT_KEYS)
        chg == first_text(item, RSV_CHG_KEYS)
        sqno1 == Strip(DictGet(item, "h_tmp_job_sqno1", ""))
        sqno2 == Strip(DictGet(item, "h_tmp_job_sqno2", ""))
    IN IF require_pnr /\ PnrMismatch(item, c.pnr_no) THEN c
       ELSE [c EXCEPT
               !.price = IF MissingPrice(@) /\ amount # "" THEN amount ELSE @,
               !.wct_no = IF MissingId(@) /\ wct # "" THEN wct ELSE @,
               !.rsv_chg_no = IF MissingId(@) /\ chg # "" THEN chg ELSE @,
               !.tmp_job_sqno1 = IF MissingSqno(@) /\ sqno1 # "" THEN sqno1 ELSE @,
               !.tmp_job_sqno2 = IF MissingSqno(@) /\ sqno2 # "" THEN sqno2 ELSE @]

\* the records _hydrate_from_payload passes to _hydrate_from_item, in order,
\* each with its require_pnr (korail.py 676-692)
ScanStep(item, require_pnr) == [item |-> item, require_pnr |-> require_pnr]

leg_scan(jrny) ==
    IF ~jrny.train_infos.is_dict THEN <<>>
    ELSE LET legs == dict_items(jrny.train_infos.info)
         IN [k \in DOMAIN legs |-> ScanStep(legs[k], TRUE)]

RECURSIVE jrny_scan(_, _)
jrny_scan(jrnys, i) ==
    IF i > Len(jrnys) THEN <<>>
    ELSE <<ScanStep(jrnys[i].fields, FALSE)>> \o leg_scan(jrnys[i])
            \o jrny_scan(jrnys, i + 1)

scan_items(data, include_top_level) ==
    (IF include_top_level THEN <<ScanStep(data.fields, FALSE)>> ELSE <<>>)
        \o (IF ~data.jrny_infos.is_dict THEN <<>>
            ELSE jrny_scan(dict_items(data.jrny_infos.info), 1))

RECURSIVE hydrate_items(_, _, _)
hydrate_items(c, steps, i) ==
    IF i > Len(steps) THEN c
    ELSE hydrate_items(hydrate_from_item(c, steps[i].item, steps[i].require_pnr),
                       steps, i + 1)

\* korail.py 676-692
hydrate_from_payload(c, data, include_top_level) ==
    hydrate_items(c, scan_items(data, include_top_level), 1)

\* korail.py 612-622: the context pay starts from
initial_context(reserve_result) ==
    LET f == reserve_result.fields
    IN [pnr_no |-> DictGet(f, "h_pnr_no", ""),
        price |-> "",
        wct_no |-> DictGet(f, "h_wct_no", ""),
        rsv_chg_no |-> Strip(DictGet(f, "h_rsv_chg_no", DictGet(f, "hidRsvChgNo", ""))),
        tmp_job_sqno1 |-> DictGet(f, "h_tmp_job_sqno1", "000000"),
        tmp_job_sqno2 |-> DictGet(f, "h_tmp_job_sqno2", "000000")]

\* korail.py 703-709, 720-726
NeedContext(c) ==
    \/ MissingPrice(c.price)
    \/ MissingId(c.wct_no)
    \/ MissingId(c.rsv_chg_no)
    \/ MissingSqno(c.tmp_job_sqno1)
    \/ MissingSqno(c.tmp_job_sqno2)

\* korail.py 738-759: the parameters of the payment request that come from
\* the context
PayParams(c) ==
    [hidPnrNo |-> c.pnr_no,
     hidWctNo |-> c.wct_no,
     hidTmpJobSqno1 |-> c.tmp_job_sqno1,
     hidTmpJobSqno2 |-> c.tmp_job_sqno2,
     hidRsvChgNo |-> Or(c.rsv_chg_no, "000"),
     hidMnsStlAmt1 |-> c.price]

(***************************************************************************)
(* What a payload carries, for the history variables of pay.               *)
(***************************************************************************)
\* the records of a payload the scan reads for reservation pnr: its own fields
\* when include_top_level, the journeys, and the legs that do not name another
\* reservation
ScannedFor(data, include_top_level, pnr) ==
    LET steps == scan_items(data, include_top_level)
    IN {steps[i].item : i \in {j \in DOMAIN steps :
            \/ ~steps[j].require_pnr
            \/ Strip(DictGet(steps[j].item, "h_pnr_no",
                             DictGet(steps[j].item, "hidPnrNo", ""))) \in {"", pnr}}}

HasAmount(item) ==
    \E i \in DOMAIN AMOUNT_KEYS :
        digit_only(DictGet(item, AMOUNT_KEYS[i], "")) \notin {"", "0"}

HasKey(item) == \E i \in DOMAIN WCT_KEYS : Strip(DictGet(item, WCT_KEYS[i], "")) # ""

HasChg(item) ==
    \E i \in DOMAIN RSV_CHG_KEYS : Strip(DictGet(item, RSV_CHG_KEYS[i], "")) # ""

HasSqno(item, key) == Strip(DictGet(item, key, "")) \notin {"", "000000"}

\* the legs of a payload that name reservation pnr
MatchingLegs(data, pnr) ==
    LET steps == scan_items(data, TRUE)
    IN {steps[i].item : i \in {j \in DOMAIN steps :
            /\ steps[j].require_pnr
            /\ Strip(DictGet(steps[j].item, "h_pnr_no",
                             DictGet(steps[j].item, "hidPnrNo", ""))) = pnr}}

\* amount and key are carried by legs naming the reservation and by no other
\* record the scan reads
LegOnly(data, pnr) ==
    /\ \E leg \in MatchingLegs(data, pnr) : HasAmount(leg)
    /\ \E leg \in MatchingLegs(data, pnr) : HasKey(leg)
    /\ DictGet(data.fields, "h_wct_no", "") = ""
    /\ \A item \in ScannedFor(data, TRUE, pnr) \ MatchingLegs(data, pnr) :
          ~HasAmount(item) /\ ~HasKey(item)

\* the change number and both job sequence numbers are carried by a record the
\* scan reads
CarriesRest(data, pnr) ==
    /\ \E item \in ScannedFor(data, TRUE, pnr) : HasChg(item)
    /\ \E item \in ScannedFor(data, TRUE, pnr) : HasSqno(item, "h_tmp_job_sqno1")
    /\ \E item \in ScannedFor(data, TRUE, pnr) : HasSqno(item, "h_tmp_job_sqno2")

\* the fields of a context that hold a value: an amount that is not empty or
\* "0", a key or change number that is not empty, a sequence number that is
\* not empty or "000000"
Resolved(c) ==
    {f \in {"price"} : c[f] \notin {"", "0"}}
        \cup {f \in {"wct_no", "rsv_chg_no"} : c[f] # ""}
        \cup {f \in {"tmp_job_sqno1", "tmp_job_sqno2"} : c[f] \notin {"", "000000"}}

\* b, then a: no field that held a value was given another
Unreplaced(b, a) == \A f \in Resolved(b) : a[f] = b[f]

RECURSIVE KeptThrough(_, _, _)
KeptThrough(c, steps, i) ==
    \/ i > Len(steps)
    \/ LET a == hydrate_from_item(c, steps[i].item, steps[i].require_pnr)
       IN Unreplaced(c, a) /\ KeptThrough(a, steps, i + 1)

\* the confirmation number a record carries, or ""
ItemPnr(item) == Strip(DictGet(item, "h_pnr_no", DictGet(item, "hidPnrNo", "")))

\* a job sequence number is carried at all, the default "000000" included
CarriesSqno(item, key) == Strip(DictGet(item, key, "")) # ""

\* the fields of the context that one of steps[i..] changed while its record
\* carried the confirmation number of another reservation
RECURSIVE ForeignFields(_, _, _)
ForeignFields(c, steps, i) ==
    IF i > Len(steps) THEN {}
    ELSE LET a == hydrate_from_item(c, steps[i].item, steps[i].require_pnr)
             other == ItemPnr(steps[i].item) \notin {"", c.pnr_no}
         IN (IF other THEN {f \in DOMAIN c : a[f] # c[f]} ELSE {})
                \cup ForeignFields(a, steps, i + 1)

\* the same for the nested records of a payload: the journey records and
\* their legs, scanned after the payload's own fields
ForeignNested(c, data, include_top_level) ==
    ForeignFields(IF include_top_level
                  THEN hydrate_from_item(c, data.fields, FALSE) ELSE c,
                  scan_items(data, FALSE), 1)

(***************************************************************************)
(* search, reservations() and tickets() (korail.py 217-266, 392-587): what *)
(* each makes of the outcome of its vendor calls.  An operation raises the *)
(* KorailError of a call or returns a list.                                *)
(***************************************************************************)
Raised(err) == [raised |-> TRUE, err |-> err]
Gave(list) == [raised |-> FALSE, value |-> list]

\* a JSON null
Null == "<null>"

\* korail.py 96-98
normalized(row) == [k \in DOMAIN row |-> IF row[k] = Null THEN "" ELSE row[k]]

\* korail.py 94-117, the fields of Train the model keeps
from_schedule(row) ==
    LET n == normalized(row)
    IN [train_no |-> RawGet(n, "h_trn_no", ""),
        dep_time |-> RawGet(n, "h_dpt_tm_qb", ""),
        dep_date |-> RawGet(n, "h_dpt_dt", ""),
        departure |-> RawGet(n, "h_dpt_rs_stn_nm", ""),
        arrival |-> RawGet(n, "h_arv_rs_stn_nm", ""),
        general_code |-> RawGet(n, "h_gen_rsv_cd", ""),
        special_code |-> RawGet(n, "h_spe_rsv_cd", ""),
        raw |-> n]

search_listing_ListOnly(data) ==
    IF ~data.trn_infos.is_dict \/ data.trn_infos.info.shape # "list" THEN <<>>
    ELSE LET rows == object_rows(data.trn_infos.info.items, 1)
         IN [k \in DOMAIN rows |-> from_schedule(rows[k])]
\* korail.py 250-266: the listing of a schedule answer, data.trn_infos being
\* NotDict or Infos(trn_info)
search_listing(data) ==
    IF ~data.trn_infos.is_dict THEN <<>>
    ELSE LET trn_info == data.trn_infos.info
         IN IF trn_info.shape = "dict" THEN <<from_schedule(trn_info.item)>>
            ELSE IF trn_info.shape # "list" THEN <<>>
            ELSE LET rows == object_rows(trn_info.items, 1)
                 IN [k \in DOMAIN rows |-> from_schedule(rows[k])]

\* korail.py 217-266: _api_call's KorailError is not caught
search(outcome) ==
    IF ~outcome.ok THEN Raised(outcome) ELSE Gave(search_listing(outcome.data))

\* korail.py 403, 475
NO_RESULT_CODES == {"P100", "WRG000000", "WRD000061", "WRT300005"}

is_no_result_CodesOnly(err) == Strip(err.code) \in NO_RESULT_CODES
\* korail.py 401-405, 505-508
is_no_result(err) ==
    \/ Strip(err.code) \in NO_RESULT_CODES
    \/ Contains(err.msg, "yeyak") /\ Contains(err.msg, "eops")

\* korail.py 413-422, 449-458, 516-525, 540-549, 554-563: the objects of a
\* value that is one object or a list
object_items(v) ==
    IF v.shape = "dict" THEN <<v.item>>
    ELSE IF v.shape = "list" THEN object_rows(v.items, 1)
    ELSE <<>>

\* korail.py 464-469, 567-573: child with the keys that it leaves empty and
\* parent carries taken from parent
inherit(child, parent, keys) ==
    LET take == {k \in keys : Strip(DictGet(child, k, "")) = "" /\ k \in DOMAIN parent}
    IN [k \in DOMAIN child \cup take |-> IF k \in take THEN parent[k] ELSE child[k]]

\* korail.py 426-440
RESERVATION_INHERIT_KEYS ==
    {"h_pnr_no", "h_rsv_amt", "h_ntisu_lmt_dt", "h_ntisu_lmt_tm", "h_run_dt",
     "h_dpt_dt", "h_dpt_tm", "h_dpt_rs_stn_nm", "h_arv_rs_stn_nm", "h_trn_no",
     "h_rsv_chg_no", "hidRsvChgNo", "h_wct_no"}

\* korail.py 441-469: the rows of one journey
jrny_rows(jrny) ==
    IF ~jrny.train_infos.is_dict THEN <<jrny>>
    ELSE LET train_items == object_items(jrny.train_infos.info)
         IN IF train_items = <<>> THEN <<jrny>>
            ELSE [k \in DOMAIN train_items |->
                    inherit(train_items[k], jrny.fields, RESERVATION_INHERIT_KEYS)]

RECURSIVE reservation_rows(_, _)
reservation_rows(jrny_items, i) ==
    IF i > Len(jrny_items) THEN <<>>
    ELSE jrny_rows(jrny_items[i]) \o reservation_rows(jrny_items, i + 1)

\* korail.py 408-470
reservation_list(data) ==
    IF ~data.jrny_infos.is_dict THEN <<>>
    ELSE reservation_rows(object_items(data.jrny_infos.info), 1)

\* korail.py 392-470
reservations(outcome) ==
    IF ~outcome.ok
    THEN IF is_no_result(outcome) THEN Gave(<<>>) ELSE Raised(outcome)
    ELSE Gave(reservation_list(outcome.data))

\* korail.py 528-537
TICKET_INHERIT_KEYS ==
    {"h_pnr_no", "h_orgtk_sale_dt", "h_orgtk_wct_no", "h_orgtk_ret_sale_dt",
     "h_orgtk_sale_sqno", "h_orgtk_ret_pwd", "h_rcvd_amt", "h_buy_ps_nm"}

\* korail.py 576-585: a key train leaves empty is taken from ticket when
\* ticket carries it, else from entry when entry carries it
inherit_leg(train, ticket, entry) ==
    LET take == {k \in TICKET_INHERIT_KEYS :
                    /\ Strip(DictGet(train, k, "")) = ""
                    /\ k \in DOMAIN ticket \cup DOMAIN entry}
    IN [k \in DOMAIN train \cup take |->
          IF k \notin take THEN train[k]
          ELSE IF k \in DOMAIN ticket THEN ticket[k] ELSE entry[k]]

\* korail.py 552-585: the rows of one ticket of entry
ticket_rows(ticket, entry) ==
    LET train_items == object_items(ticket.train_info)
    IN IF train_items = <<>>
       THEN <<[ticket EXCEPT !.fields = inherit(@, entry.fields, TICKET_INHERIT_KEYS)]>>
       ELSE [k \in DOMAIN train_items |->
               inherit_leg(train_items[k], ticket.fields, entry.fields)]

RECURSIVE tickets_of(_, _, _)
tickets_of(ticket_items, entry, i) ==
    IF i > Len(ticket_items) THEN <<>>
    ELSE ticket_rows(ticket_items[i], entry) \o tickets_of(ticket_items, entry, i + 1)

\* korail.py 538-585: the rows of one entry of reservation_list
entry_rows(entry) ==
    LET ticket_items == object_items(entry.ticket_list)
    IN IF ticket_items = <<>> THEN <<entry>> ELSE tickets_of(ticket_items, entry, 1)

RECURSIVE ticket_entries(_, _)
ticket_entries(entries, i) ==
    IF i > Len(entries) THEN <<>>
    ELSE entry_rows(entries[i]) \o ticket_entries(entries, i + 1)

\* korail.py 514-587
ticket_list(data) == ticket_entries(object_items(data.reservation_list), 1)

\* korail.py 500-512: the answer tickets() works on after its requests, whose
\* outcomes are outcomes[1], outcomes[2]: the data of the first request that
\* returned, "no_result" after a no-data error, "none" when every request
\* failed
RECURSIVE ticket_data(_, _)
ticket_data(outcomes, i) ==
    IF i > Len(outcomes) THEN [kind |-> "none"]
    ELSE IF outcomes[i].ok THEN [kind |-> "data", data |-> outcomes[i].data]
    ELSE IF is_no_result(outcomes[i]) THEN [kind |-> "no_result"]
    ELSE ticket_data(outcomes, i + 1)

\* korail.py 472-587
tickets(outcomes) ==
    LET got == ticket_data(outcomes, 1)
    IN IF got.kind = "no_result" THEN Gave(<<>>)
       ELSE IF got.kind = "none" THEN Gave(<<>>)
       ELSE Gave(ticket_list(got.data))

(***************************************************************************)
(* _do_pay (cli.py 852-899): the card is loaded, pay is called, and the    *)
(* message of its answer is searched for the failure texts.                *)
(***************************************************************************)
\* cli.py 884
FAILURE_TOKENS == {"oryu", "silpae", "bulga", "invalid", "error"}

do_pay_TrustFlag(card, outcome) == card # None /\ outcome.ok
\* cli.py 857-899: card is what _load_card returned, outcome what api.pay did
do_pay(card, outcome) ==
    IF card = None THEN FALSE
    ELSE IF ~outcome.ok THEN FALSE
    ELSE LET pay_msg == Strip(DictGet(outcome.data, "h_msg_txt", ""))
         IN ~(pay_msg # "" /\ \E token \in FAILURE_TOKENS : Contains(pay_msg, token))

(***************************************************************************)
(* Inputs: the rows a search may return and the caller's choices.          *)
(***************************************************************************)
SeatPrefs == {"general", "special", "any", "standing"}

\* the rows the polling loop is fed: two services; 101 is reported twice, with
\* different seat states, so that a listing may hold two rows of one identity;
\* its second report has the general class sold out and the waiting list open
PollTrains ==
    {MkTrain("101", "0900", RSV_AVAILABLE, RSV_SOLD_OUT, NoRaw),
     MkTrain("101", "0900", RSV_SOLD_OUT, RSV_AVAILABLE, WaitingRaw(RSV_WAITING)),
     MkTrain("103", "1000", RSV_AVAILABLE, RSV_AVAILABLE, StandingRaw(RSV_SOLD_OUT)),
     MkTrain("103", "1000", RSV_SOLD_OUT, RSV_SOLD_OUT, StandingRaw(RSV_AVAILABLE))}

PollKeys == {train_key(t) : t \in PollTrains}

SeqsUpTo(S, n) == UNION {[1..k -> S] : k \in 0..n}

Listings == SeqsUpTo(PollTrains, MaxListing)

\* _prompt_target_trains (cli.py 392-440) returns the keys of a non-empty selection
TargetLists == SeqsUpTo(PollKeys, MaxTargets) \ {<<>>}

\* vendor error codes: exc.code or "" (cli.py 1106, 1148)
ErrorCodes == SESSION_EXPIRED_CODES \cup {"", "WRG000000"}

\* what _load_card may return
Cards == {None, Some("card")}

\* api.pay was not called: _load_card returned None (cli.py 854-864)
NotCalled == [ok |-> FALSE, msg |-> "<not called>", code |-> ""]

\* what api.pay may do when main calls it: raise for incomplete payment data
\* (korail.py 730-733), raise the vendor's error, return an answer with a
\* failure message, return a clean answer
PayOutcomes(card) ==
    IF card = None THEN {NotCalled}
    ELSE {KorailError("Unable to determine payment amount.", ""),
          KorailError("Unable to determine payment key (h_wct_no).", ""),
          KorailError("gyeolje bulga", "WRG000000"),
          Returned([strResult |-> "SUCC", h_msg_txt |-> "seungin silpae"]),
          Returned([strResult |-> "SUCC", h_msg_txt |-> "gyeolje wallyo"])}

(***************************************************************************)
(* State of main's polling loop.                                           *)
(***************************************************************************)
VARIABLES
    max_attempts,        \* --max-attempts
    seat,                \* --seat / prompted seat preference
    target_trains,       \* None, or Some(list of TrainKey)
    pc,                  \* position of main
    attempt,             \* cli.py 1093
    consecutive_errors,  \* cli.py 1094
    listing,             \* trains (cli.py 1101), live only inside one iteration
    candidate_trains,    \* cli.py 1126, live only inside one iteration
    idx,                 \* position of the for loop (cli.py 1137) in candidate_trains
    result,              \* None, or Some(the reservation made)
    paid,                \* cli.py 1164
    exit_code,           \* None, or Some(the exit status of the process)
    \* history of the run, read by the properties only
    nSearch,             \* api.search calls issued
    okSearches,          \* api.search calls that returned
    failsSinceOk,        \* failed searches since the last one that returned
    transStreak,         \* transient failures of the latest searches in a row
    nReserveOk,          \* api.reserve calls that returned
    last_req,            \* the latest search or reserve request and its outcome
    last_listing,        \* what the latest search returned, in summary
    tried,               \* the reserve calls of the current iteration, in order
    slept,               \* what main waited for after the latest request: a
                         \* sleep ("poll", "backoff"), a manual login, nothing
    call,                \* the latest application of a helper, with its result
    \* KorailAPI.login_manual and wait_for_login_stable (korail.py 173-215)
    lm_pc,               \* position of login_manual
    now,                 \* time.monotonic(), in ticks, since login_manual was called
    lm_deadline,         \* korail.py 181
    ws_deadline,         \* korail.py 202
    streak,              \* korail.py 201
    lm_ret,              \* None, or Some(what login_manual returned)
    page,                \* the URL the page was sent to last
    true_run,            \* history: logged-in probes in a row, up to the latest probe
    n_probes,            \* history: probes made
    \* KorailAPI.pay (korail.py 589-760)
    pay_pc,              \* position of pay
    ctx,                 \* pnr_no, price, wct_no, rsv_chg_no, tmp_job_sqno1, tmp_job_sqno2
    queries,             \* the reservation endpoints pay has queried, in order
    pay_req,             \* None, or Some(the parameters of the payment request sent)
    pay_err,             \* the error pay raised, "" when none
    kept,                \* history: no record replaced a value that was not missing
    rr,                  \* history: what the reservation response carried, and where
    seen,                \* history: whether any source carried an amount / a key
    \* main and _ensure_login (cli.py 712-747, 1050-1062)
    el_pc,               \* position of main around _ensure_login
    headless,            \* --headless / --no-headless
    session,             \* the browser sessions started so far; the latest is in use
    probed,              \* history: the sessions a probe reported authenticated on
    n_req,               \* history: search, reserve and pay requests issued
    logged,              \* history: the sessions a manual login succeeded on
    saved                \* history: the sessions save_cookies wrote to disk

cfg == <<max_attempts, seat, target_trains>>
loop == <<attempt, consecutive_errors, listing, candidate_trains, idx>>
hist == <<nSearch, okSearches, failsSinceOk, transStreak, nReserveOk, last_req,
          last_listing, tried, slept>>
manual == <<lm_pc, now, lm_deadline, ws_deadline, streak, lm_ret, page, true_run,
            n_probes>>
payv == <<pay_pc, ctx, queries, pay_req, pay_err, kept, rr, seen>>
sess == <<el_pc, headless, session, probed, n_req, logged, saved>>
api == <<manual, payv, sess>>
vars == <<cfg, pc, exit_code, loop, result, paid, hist, call, api>>

NoCall == [fn |-> "none"]
NoReq == [kind |-> "none", outcome |-> "none"]
NoListing == [rows |-> 0, target_hit |-> FALSE, collide |-> FALSE]

\* pc = "poll": at the loop head; "reserve": api.reserve called for
\* candidate_trains[idx] and not yet answered; "login_search", "login_reserve":
\* in _ensure_login after a session-expired search / reserve; "pay": in _do_pay
Running == {"poll", "reserve", "login_search", "login_reserve", "pay"}
Terminal == {"done", "exhausted", "fatal", "login_failed", "interrupted"}

NoCtx == [pnr_no |-> "", price |-> "", wct_no |-> "", rsv_chg_no |-> "",
          tmp_job_sqno1 |-> "", tmp_job_sqno2 |-> ""]
NoRr == [leg_only |-> FALSE, rest |-> FALSE]
NoSeen == [amount |-> FALSE, key |-> FALSE, chg |-> FALSE, sqno1 |-> FALSE,
           sqno2 |-> FALSE, foreign |-> {}]

\* no call of login_manual or pay has been made
InitApi ==
    /\ lm_pc = "idle"
    /\ now = 0
    /\ lm_deadline = 0
    /\ ws_deadline = 0
    /\ streak = 0
    /\ lm_ret = None
    /\ page = "none"
    /\ true_run = 0
    /\ n_probes = 0
    /\ pay_pc = "idle"
    /\ ctx = NoCtx
    /\ queries = <<>>
    /\ pay_req = None
    /\ pay_err = ""
    /\ kept = TRUE
    /\ rr = NoRr
    /\ seen = NoSeen
    /\ el_pc = "idle"
    /\ headless = TRUE
    /\ session = 0
    /\ probed = {}
    /\ n_req = 0
    /\ logged = {}
    /\ saved = {}

\* the state at cli.py 1093-1094, for every choice of the caller in the given sets
InitWith(budgets, prefs, targets) ==
    /\ max_attempts \in budgets
    /\ seat \in prefs
    /\ target_trains \in targets
    /\ pc = "poll"
    /\ attempt = 0
    /\ consecutive_errors = 0
    /\ listing = <<>>
    /\ candidate_trains = <<>>
    /\ idx = 0
    /\ result = None
    /\ paid = FALSE
    /\ exit_code = None
    /\ nSearch = 0
    /\ okSearches = 0
    /\ failsSinceOk = 0
    /\ transStreak = 0
    /\ nReserveOk = 0
    /\ last_req = NoReq
    /\ last_listing = NoListing
    /\ tried = <<>>
    /\ slept = "none"
    /\ call = NoCall
    /\ InitApi

Init == InitWith(0..MaxBudget, SeatPrefs, {None} \cup {Some(t) : t \in TargetLists})

(***************************************************************************)
(* Small decisions of the loop, each one line of main.                     *)
(***************************************************************************)
BudgetLeft_CountReturned == max_attempts = 0 \/ okSearches < max_attempts
\* cli.py 1095: while max_attempts == 0 or attempt < max_attempts
BudgetLeft == max_attempts = 0 \/ attempt < max_attempts

\* cli.py 1107, 1149: code in _SESSION_EXPIRED_CODES
IsSessionExpired(code) == code \in SESSION_EXPIRED_CODES

ReserveBreaks_Never(code) == FALSE
\* cli.py 1149-1154: a session-expired reserve error ends the for loop
ReserveBreaks(code) == IsSessionExpired(code)

sys_exit_Success(status) == Some(0)
\* sys.exit(status): the process ends with this exit status
sys_exit(status) == Some(status)

\* main returns (cli.py 1172, 1174): the process ends with exit status 0
Returns == Some(0)

ErrorCapReached_Late(n) == n > ErrorCap
\* cli.py 1112
ErrorCapReached(n) == n >= ErrorCap

ErrorsAfterSuccess_Keep(n) == n
\* cli.py 1103: consecutive_errors = 0 after a search that returned
ErrorsAfterSuccess(n) == 0

NextEligible_First(cands, from, seat_pref) == IF from <= Len(cands) THEN from ELSE 0
\* cli.py 1137-1139: the next candidate at or after position from that passes
\* _seat_available; 0 when the for loop runs off the end of the list
NextEligible(cands, from, seat_pref) ==
    LET E == {i \in from..Len(cands) : seat_available(cands[i], seat_pref)}
    IN IF E = {} THEN 0 ELSE Min(E)

NextAfterFailure_SameAgain(cands, i, seat_pref) == i
\* cli.py 1156: continue, to the candidate after the one that failed
NextAfterFailure(cands, i, seat_pref) == NextEligible(cands, i + 1, seat_pref)

Candidates_AllRows(trains) == trains
\* cli.py 1126-1128
Candidates(trains) ==
    IF target_trains = None THEN trains
    ELSE resolve_targets(trains, The(target_trains)).found

AfterReserve_KeepPolling(pay_wanted) == "poll"
\* cli.py 1158-1172: pay if asked to, notify, return
AfterReserve(pay_wanted) == IF pay_wanted THEN "pay" ELSE "done"

AfterPay_RetryUnpaid(ok) == IF ok THEN "done" ELSE "poll"
\* cli.py 1164-1172: whatever _do_pay returned, main notifies and returns
AfterPay(ok) == "done"

\* whether a key the caller selected is in the listing (read by the properties)
TargetHit(trains) ==
    \/ target_trains = None
    \/ \E i \in DOMAIN The(target_trains) : KeyPresent(trains, The(target_trains)[i])

\* whether two rows of the listing share an identity (read by the properties)
Collide(trains) ==
    \E i, j \in DOMAIN trains : i < j /\ train_key(trains[i]) = train_key(trains[j])

ListingInfo(trains) ==
    [rows |-> Len(trains), target_hit |-> TargetHit(trains), collide |-> Collide(trains)]

ReqSearch(outcome) == [kind |-> "search", outcome |-> outcome]
ReqReserve(outcome) == [kind |-> "reserve", outcome |-> outcome]
ErrorClass(code) == IF code \in SESSION_EXPIRED_CODES THEN "expired" ELSE "error"

\* the reserve call main makes for candidate i (cli.py 1140, 1146)
ReserveCall(cands, i) ==
    [pos |-> i, train |-> cands[i], seat_type |-> pick_seat(cands[i], seat)]

(***************************************************************************)
(* The polling loop (cli.py 1095-1174).                                    *)
(***************************************************************************)
\* the iteration is over: back to the loop head, its locals dropped
EndIteration ==
    /\ listing' = <<>>
    /\ candidate_trains' = <<>>
    /\ idx' = 0
    /\ tried' = <<>>

\* api.search returned trains (cli.py 1096-1146)
SearchOk(trains) ==
    /\ pc = "poll"
    /\ BudgetLeft
    /\ attempt' = attempt + 1
    /\ consecutive_errors' = ErrorsAfterSuccess(consecutive_errors)
    /\ nSearch' = nSearch + 1
    /\ okSearches' = okSearches + 1
    /\ failsSinceOk' = 0
    /\ transStreak' = 0
    /\ last_req' = ReqSearch("ok")
    /\ last_listing' = ListingInfo(trains)
    /\ LET cands == Candidates(trains)
           first == NextEligible(cands, 1, seat)
       IN IF trains = <<>> \/ cands = <<>> \/ first = 0
          THEN \* no rows, no selected train present, or no eligible candidate
               /\ EndIteration
               /\ slept' = "poll"
               /\ pc' = "poll"
          ELSE /\ listing' = trains
               /\ candidate_trains' = cands
               /\ idx' = first
               /\ tried' = <<ReserveCall(cands, first)>>
               /\ slept' = "none"
               /\ pc' = "reserve"
    /\ UNCHANGED <<cfg, exit_code, result, paid, nReserveOk, call, api>>

\* api.search raised KorailError(code) (cli.py 1096-1116)
SearchFail(code) ==
    /\ pc = "poll"
    /\ BudgetLeft
    /\ attempt' = attempt + 1
    /\ consecutive_errors' = consecutive_errors + 1
    /\ nSearch' = nSearch + 1
    /\ failsSinceOk' = failsSinceOk + 1
    /\ transStreak' = IF ErrorClass(code) = "error" THEN transStreak + 1 ELSE 0
    /\ last_req' = ReqSearch(ErrorClass(code))
    /\ last_listing' = NoListing
    /\ EndIteration
    /\ IF IsSessionExpired(code)
       THEN pc' = "login_search" /\ slept' = "none"
       ELSE IF ErrorCapReached(consecutive_errors')
            THEN pc' = "fatal" /\ slept' = "none"
            ELSE pc' = "poll" /\ slept' = "backoff"
    /\ exit_code' = IF pc' = "fatal" THEN sys_exit(1) ELSE exit_code
    /\ UNCHANGED <<cfg, result, paid, okSearches, nReserveOk, call, api>>

\* the while condition fails: main returns (cli.py 1095)
BudgetExhausted ==
    /\ pc = "poll"
    /\ ~BudgetLeft
    /\ pc' = "exhausted"
    /\ exit_code' = Returns
    /\ UNCHANGED <<cfg, loop, result, paid, hist, call, api>>

\* api.reserve returned (cli.py 1146, 1158-1172); pay_wanted is --auto-pay,
\* which main reads here for the first time
ReserveOk(pay_wanted) ==
    /\ pc = "reserve"
    /\ last_req' = ReqReserve("ok")
    /\ nReserveOk' = nReserveOk + 1
    /\ result' = Some([train |-> candidate_trains[idx],
                       seat_type |-> pick_seat(candidate_trains[idx], seat)])
    /\ EndIteration
    /\ pc' = AfterReserve(pay_wanted)
    /\ exit_code' = IF pc' = "done" THEN Returns ELSE exit_code
    /\ UNCHANGED <<cfg, attempt, consecutive_errors, paid, nSearch, okSearches,
                   failsSinceOk, transStreak, last_listing, slept, call, api>>

\* api.reserve raised KorailError(code) (cli.py 1146-1156, 1174)
ReserveFail(code) ==
    /\ pc = "reserve"
    /\ last_req' = ReqReserve(ErrorClass(code))
    /\ IF ReserveBreaks(code)
       THEN /\ EndIteration
            /\ slept' = "none"
            /\ pc' = "login_reserve"
       ELSE LET next == NextAfterFailure(candidate_trains, idx, seat)
            IN IF next = 0
               THEN /\ EndIteration
                    /\ slept' = "poll"
                    /\ pc' = "poll"
               ELSE /\ idx' = next
                    /\ tried' = Append(tried, ReserveCall(candidate_trains, next))
                    /\ slept' = "none"
                    /\ pc' = "reserve"
                    /\ UNCHANGED <<listing, candidate_trains>>
    /\ UNCHANGED <<cfg, exit_code, attempt, consecutive_errors, result, paid, nSearch, okSearches,
                   failsSinceOk, transStreak, nReserveOk, last_listing, call, api>>

\* _ensure_login returned (cli.py 712-747): at once when relogin is false, the
\* probe of line 714 having answered logged in, after a manual login
\* otherwise; after a reserve the break leads to the sleep of line 1174, after
\* a search the continue leads to the loop head
EnsureLoginReturns(relogin) ==
    /\ pc \in {"login_search", "login_reserve"}
    /\ slept' = IF pc = "login_reserve" THEN "poll"
                ELSE IF relogin THEN "login" ELSE "none"
    /\ pc' = "poll"
    /\ UNCHANGED <<cfg, exit_code, loop, result, paid, nSearch, okSearches, failsSinceOk,
                   transStreak, nReserveOk, last_req, last_listing, tried, call, api>>

\* _ensure_login gave up: sys.exit(1) (cli.py 729-731, 743-745)
EnsureLoginExits ==
    /\ pc \in {"login_search", "login_reserve"}
    /\ pc' = "login_failed"
    /\ exit_code' = sys_exit(1)
    /\ UNCHANGED <<cfg, loop, result, paid, hist, call, api>>

\* paid = _do_pay(api, result, smart_ticket) (cli.py 1164-1172), _load_card
\* returning card and api.pay doing outcome; call keeps what _do_pay was given
Pay(card, outcome) ==
    /\ pc = "pay"
    /\ call' = [fn |-> "main_pay", card |-> card, outcome |-> outcome,
                ret |-> do_pay(card, outcome)]
    /\ paid' = do_pay(card, outcome)
    /\ pc' = AfterPay(paid')
    /\ exit_code' = Returns
    /\ UNCHANGED <<cfg, loop, result, hist, api>>

\* SIGINT: _sigint calls sys.exit(0) (cli.py 1044-1048); the process is gone,
\* and the locals of the iteration with it
Interrupt ==
    /\ pc \in Running
    /\ pc' = "interrupted"
    /\ exit_code' = sys_exit(0)
    /\ EndIteration
    /\ UNCHANGED <<cfg, attempt, consecutive_errors, result, paid, nSearch, okSearches,
                   failsSinceOk, transStreak, nReserveOk, last_req, last_listing, slept,
                   call, api>>

\* the loop, explored up to cap searches fed from listings
Poll(cap, listings) ==
    \/ attempt < cap /\ \E trains \in listings : SearchOk(trains)
    \/ attempt < cap /\ \E code \in ErrorCodes : SearchFail(code)
    \/ BudgetExhausted
    \/ \E pay_wanted \in BOOLEAN : ReserveOk(pay_wanted)
    \/ \E code \in ErrorCodes : ReserveFail(code)
    \/ \E relogin \in BOOLEAN : EnsureLoginReturns(relogin)
    \/ EnsureLoginExits
    \/ \E card \in Cards : \E outcome \in PayOutcomes(card) : Pay(card, outcome)
    \/ Interrupt

Next == Poll(MaxPolls, Listings)

Spec == Init /\ [][Next]_vars

\* the runs with a budget, --max-attempts N with N > 0, and no selected trains
InitBudget == InitWith(1..MaxBudget, SeatPrefs, {None})

\* main is one thread: whenever a step of it can be taken (the call it waits
\* for returns, the sleep ends), one is taken
SpecBudget == InitBudget /\ [][Next]_vars /\ WF_vars(Next)

(***************************************************************************)
(* SpecErrors: the same loop with one seat preference, no selected trains  *)
(* and two listings, explored over longer runs of failing searches.        *)
(***************************************************************************)
ErrorListings ==
    {<<>>, <<MkTrain("101", "0900", RSV_AVAILABLE, RSV_SOLD_OUT, NoRaw)>>}

InitErrors == InitWith(0..MaxIter, {"general"}, {None})

NextErrors == Poll(MaxIter, ErrorListings)

SpecErrors == InitErrors /\ [][NextErrors]_vars

(***************************************************************************)
(* SpecPure: one application of a pure helper per behaviour.               *)
(***************************************************************************)
\* status codes a row may carry for a seat class
SeatCodes == {RSV_AVAILABLE, RSV_SOLD_OUT, RSV_WAITING, ""}

SeatTrains ==
    {MkTrain("101", "0900", gen, spe, raw) :
        gen \in SeatCodes, spe \in SeatCodes,
        raw \in {NoRaw} \cup {StandingRaw(c) : c \in SeatCodes}}

\* rows of three services, two of them differing in one field of the identity
ResolveTrains ==
    {MkTrain(id[1], id[2], gen, RSV_SOLD_OUT, NoRaw) :
        id \in {<<"101", "0900">>, <<"101", "1000">>, <<"103", "1000">>},
        gen \in {RSV_AVAILABLE, RSV_SOLD_OUT}}

ResolveListings == SeqsUpTo(ResolveTrains, MaxListing)

ResolveTargetLists == SeqsUpTo({train_key(t) : t \in ResolveTrains}, MaxTargets)

CallResolveTargets(trains, targets) ==
    /\ call = NoCall
    /\ call' = [fn |-> "resolve_targets", trains |-> trains, targets |-> targets,
                ret |-> resolve_targets(trains, targets)]
    /\ UNCHANGED <<cfg, pc, exit_code, loop, result, paid, hist, api>>

CallSeatAvailable(train, seat_pref) ==
    /\ call = NoCall
    /\ call' = [fn |-> "seat_available", train |-> train, seat |-> seat_pref,
                ret |-> seat_available(train, seat_pref)]
    /\ UNCHANGED <<cfg, pc, exit_code, loop, result, paid, hist, api>>

InitPure == InitWith({0}, {"any"}, {None})

NextPure ==
    \/ \E trains \in ResolveListings, targets \in ResolveTargetLists :
          CallResolveTargets(trains, targets)
    \/ \E train \in SeatTrains, seat_pref \in SeatPrefs :
          CallSeatAvailable(train, seat_pref)

SpecPure == InitPure /\ [][NextPure]_vars

(***************************************************************************)
(* SpecProbe: one login-status probe per behaviour, answered with any body *)
(* of LoginBodies.                                                         *)
(***************************************************************************)
\* the objects loginCheck may answer with
LoginDicts ==
    {MkDict([h_msg_txt |-> msg, strResult |-> res, strMbCrdNo |-> mb,
             strCustNm |-> nm, mbCrdNo |-> mb2, loginYn |-> yn, isLogin |-> il,
             strCustId |-> id]) :
        msg \in {Absent, "jeongsang", "rogeuin jeongboga eopsseumnida",
                 "rogeuin sesyeoni eopseum", "rogeuin doeeotseumnida",
                 "johoe gyeolgwaga eopsseumnida"},
        res \in {Absent, "SUCC", "SUCCESS", "Y", "FAIL", "N"},
        mb \in {Absent, "N", "0", " 1234 "},
        nm \in {Absent, "FALSE", " ", "Hong"},
        mb2 \in {Absent, "5678"},
        yn \in {Absent, "n", "Y"},
        il \in {Absent, "0", "true"},
        id \in {Absent, "hong1"}}

LoginBodies ==
    {BodyEmpty, BodyNotJson, BodyNotObject} \cup {BodyObject(d) : d \in LoginDicts}

CallIsLoggedIn(body) ==
    /\ call = NoCall
    /\ call' = [fn |-> "is_logged_in", body |-> body, ret |-> is_logged_in(body)]
    /\ UNCHANGED <<cfg, pc, exit_code, loop, result, paid, hist, api>>

CallLoginProfile(body) ==
    /\ call = NoCall
    /\ call' = [fn |-> "login_profile", body |-> body, ret |-> login_profile(body)]
    /\ UNCHANGED <<cfg, pc, exit_code, loop, result, paid, hist, api>>

NextProbe ==
    \/ call = NoCall /\ \E body \in LoginBodies : CallIsLoggedIn(body)
    \/ call = NoCall /\ \E body \in LoginBodies : CallLoginProfile(body)

SpecProbe == InitPure /\ [][NextProbe]_vars

(***************************************************************************)
(* SpecLogin: login_manual (korail.py 173-191) and wait_for_login_stable   *)
(* (193-215), one action per login-status probe.  Time is counted in ticks *)
(* of a tenth of a second; a probe takes one of ProbeTicks, a sleep what   *)
(* it was asked for.                                                       *)
(***************************************************************************)
TicksPerSecond == 10
\* korail.py 184: timeout_s=0.6
WAIT_TIMEOUT == 6
\* korail.py 185, 215: max(0.05, interval_s) with interval_s=0.3
WAIT_INTERVAL == 3
\* korail.py 186: stable_checks=2
STABLE_CHECKS == 2
\* korail.py 190: time.sleep(1.0)
RETRY_SLEEP == 10

\* korail.py 200: required = max(1, stable_checks)
Required == IF STABLE_CHECKS > 1 THEN STABLE_CHECKS ELSE 1

\* how long a probe may take
ProbeTicks == {0, 2, 4, 8}

\* what loginCheck may answer while the user is logging in
ManualBodies ==
    {BodyEmpty,
     BodyObject([strResult |-> "SUCC", h_msg_txt |-> "rogeuin jeongboga eopsseumnida"]),
     BodyObject([strResult |-> "SUCC", h_msg_txt |-> "jeongsang", strMbCrdNo |-> "1234"]),
     BodyObject([strResult |-> "N", loginYn |-> "N"])}

StreakAfter_NoReset(n, ok) == n + 1
\* korail.py 206-211
StreakAfter(n, ok) == IF ok THEN n + 1 ELSE 0

\* korail.py 182-191: the while test of login_manual at time t; it enters
\* wait_for_login_stable (200-202), or login_manual returns False
WhileTest(t, deadline) ==
    IF t < deadline
    THEN /\ lm_pc' = "probe"
         /\ streak' = 0
         /\ ws_deadline' = t + WAIT_TIMEOUT
         /\ lm_ret' = None
    ELSE /\ lm_pc' = "returned"
         /\ streak' = 0
         /\ ws_deadline' = 0
         /\ lm_ret' = Some(FALSE)

\* login_manual(timeout_s) is called (korail.py 180-183)
LoginManual(timeout_s) ==
    /\ lm_pc = "idle"
    /\ page' = "LOGIN_URL"
    /\ lm_deadline' = now + timeout_s * TicksPerSecond
    /\ WhileTest(now, lm_deadline')
    /\ UNCHANGED <<now, true_run, n_probes>>
    /\ UNCHANGED <<cfg, pc, exit_code, loop, result, paid, hist, call, payv, sess>>

\* is_logged_in returns for the body loginCheck answered with, after ticks
\* ticks (korail.py 204-215, 187-190)
Probe(body, ticks) ==
    /\ lm_pc = "probe"
    /\ LET ok == is_logged_in(body)
           t == now + ticks
           n == StreakAfter(streak, ok)
       IN /\ true_run' = (IF ok THEN true_run + 1 ELSE 0)
          /\ n_probes' = n_probes + 1
          /\ IF ok /\ n >= Required
             THEN \* wait_for_login_stable and login_manual return True
                  /\ page' = "SEARCH_URL"
                  /\ now' = t
                  /\ lm_pc' = "returned"
                  /\ lm_ret' = Some(TRUE)
                  /\ streak' = 0
                  /\ ws_deadline' = 0
             ELSE IF t >= ws_deadline
                  THEN \* wait_for_login_stable returns False: sleep, test again
                       /\ now' = t + RETRY_SLEEP
                       /\ WhileTest(now', lm_deadline)
                       /\ UNCHANGED page
                  ELSE /\ now' = t + WAIT_INTERVAL
                       /\ streak' = n
                       /\ UNCHANGED <<lm_pc, ws_deadline, lm_ret, page>>
    /\ UNCHANGED lm_deadline
    /\ UNCHANGED <<cfg, pc, exit_code, loop, result, paid, hist, call, payv, sess>>

NextLogin ==
    \/ \E timeout_s \in 0..MaxTimeout : LoginManual(timeout_s)
    \/ \E body \in ManualBodies, ticks \in ProbeTicks : Probe(body, ticks)

SpecLogin == InitPure /\ [][NextLogin]_vars

(***************************************************************************)
(* SpecPay: one call of pay (korail.py 589-760), one action per vendor     *)
(* call outcome, for the reservation 'P1'.                                 *)
(***************************************************************************)
\* legs: of the reservation, of another one, without a confirmation number
\* (alternate keys, values to clean), and of the reservation with a zero amount
\* before a usable one
Legs ==
    {[h_pnr_no |-> "P1", h_rsv_amt |-> "12300", h_wct_no |-> "W1"],
     [h_pnr_no |-> "P2", h_rsv_amt |-> "99000", h_wct_no |-> "W9",
      h_rsv_chg_no |-> "009", h_tmp_job_sqno1 |-> "000009",
      h_tmp_job_sqno2 |-> "000009"],
     [hidPayAmount |-> "45,600", hidWctNo |-> " W2 ", hidRsvChgNo |-> "002",
      h_tmp_job_sqno1 |-> "000001", h_tmp_job_sqno2 |-> "000002"],
     [hidPnrNo |-> "P1", h_rsv_amt |-> "0", h_rcvd_amt |-> "7700", h_wct_no |-> ""]}

TrainInfos ==
    {NotDict, Infos(ShapeOther)}
        \cup {Infos(ShapeDict(leg)) : leg \in Legs}
        \cup {Infos(ShapeList(legs)) : legs \in SeqsUpTo(Legs, MaxLegs)}

\* journey records: empty, of the reservation's own journey, and of another
\* reservation of the account
JrnyFields ==
    {EmptyDict,
     [h_rsv_chg_no |-> "001", h_tmp_job_sqno1 |-> "000003",
      h_tmp_job_sqno2 |-> "000000"],
     [h_pnr_no |-> "P2", h_rsv_amt |-> "88000", h_wct_no |-> "W8"]}

Jrnys == {MkJrny(f, t) : f \in JrnyFields, t \in TrainInfos}

\* the return journey of the payloads that hold two
ReturnJrny ==
    MkJrny([h_tmp_job_sqno2 |-> "000008"],
           Infos(ShapeDict([h_pnr_no |-> "P1", h_rsv_amt |-> "23400",
                            h_wct_no |-> "W3"])))

JrnyInfos ==
    {NotDict, Infos(ShapeOther)}
        \cup {Infos(ShapeDict(j)) : j \in Jrnys}
        \cup {Infos(ShapeList(<<j, ReturnJrny>>)) : j \in Jrnys}

\* what reserve() may have returned (the last two carry no confirmation
\* number: the key absent, its value empty)
ReserveResults ==
    {MkPayload(f, j) :
        f \in {[h_pnr_no |-> "P1"],
               [h_pnr_no |-> "P1", h_wct_no |-> "W0"],
               [h_pnr_no |-> "P1", h_rsv_chg_no |-> "003",
                h_tmp_job_sqno1 |-> "000004", h_tmp_job_sqno2 |-> "000005"],
               [h_pnr_no |-> "P1", h_rsv_amt |-> "8400", h_wct_no |-> "W0",
                hidRsvChgNo |-> "003", h_tmp_job_sqno1 |-> "000004",
                h_tmp_job_sqno2 |-> "000005"],
               [h_pnr_no |-> "P1", h_wct_no |-> " ", h_tmp_job_sqno1 |-> "000000"],
               [h_wct_no |-> "W0"],
               [h_pnr_no |-> "", h_rsv_amt |-> "8400", h_wct_no |-> "W0"]},
        j \in JrnyInfos}

\* what the reservation-detail endpoint may answer (one answer carries an
\* amount of zeros only)
DetailPayloads ==
    {MkPayload(f, j) :
        f \in {EmptyDict,
               [h_rsv_amt |-> "n/a", h_rcvd_amt |-> "6600", hidWctNo |-> "W4"],
               [h_rsv_amt |-> "0000000", hidWctNo |-> "W4"],
               [hidRsvChgNo |-> "004", h_tmp_job_sqno1 |-> "000006",
                h_tmp_job_sqno2 |-> "000007"]},
        j \in JrnyInfos}

\* what the reservation-overview endpoint may answer
ViewPayloads ==
    {MkPayload(f, j) :
        f \in {EmptyDict, [h_rsv_amt |-> "5500", h_wct_no |-> "W5"]},
        j \in JrnyInfos}

\* korail.py 730-760: the final checks of pay on the context c, and the
\* payment request
PayFinish(c) ==
    IF MissingPrice(c.price)
    THEN pay_pc' = "raised" /\ pay_err' = "amount" /\ pay_req' = None
    ELSE IF MissingId(c.wct_no)
         THEN pay_pc' = "raised" /\ pay_err' = "key" /\ pay_req' = None
         ELSE pay_pc' = "request" /\ pay_err' = "" /\ pay_req' = Some(PayParams(c))

\* what the history keeps of a payload scanned for reservation pnr
SeenAfter(c, data, include_top_level) ==
    LET scanned == ScannedFor(data, include_top_level, c.pnr_no)
    IN [amount |-> seen.amount \/ \E item \in scanned : HasAmount(item),
        key |-> seen.key \/ \E item \in scanned : HasKey(item),
        chg |-> seen.chg \/ \E item \in scanned : HasChg(item),
        sqno1 |-> seen.sqno1
                   \/ \E item \in scanned : CarriesSqno(item, "h_tmp_job_sqno1"),
        sqno2 |-> seen.sqno2
                   \/ \E item \in scanned : CarriesSqno(item, "h_tmp_job_sqno2"),
        foreign |-> seen.foreign \cup ForeignNested(c, data, include_top_level)]

\* pay(reserve_result, ...) is called (korail.py 612-718)
PayCalled(reserve_result) ==
    /\ pay_pc = "idle"
    /\ LET c0 == initial_context(reserve_result)
           c1 == hydrate_from_payload(c0, reserve_result, TRUE)
       IN IF MissingPnr(c0.pnr_no)
          THEN /\ pay_pc' = "raised"
               /\ pay_err' = "pnr"
               /\ UNCHANGED <<ctx, queries, pay_req, kept, rr, seen>>
          ELSE /\ ctx' = c1
               /\ kept' = KeptThrough(c0, scan_items(reserve_result, TRUE), 1)
               /\ rr' = [leg_only |-> LegOnly(reserve_result, c0.pnr_no),
                         rest |-> CarriesRest(reserve_result, c0.pnr_no)]
               /\ seen' = [SeenAfter(c0, reserve_result, TRUE)
                             EXCEPT !.key = @ \/ c0.wct_no # ""]
               /\ IF NeedContext(c1)
                  THEN /\ pay_pc' = "detail"
                       /\ queries' = <<"detail">>
                       /\ pay_req' = None
                       /\ pay_err' = ""
                  ELSE /\ PayFinish(c1)
                       /\ queries' = <<>>
    /\ UNCHANGED <<cfg, pc, exit_code, loop, result, paid, hist, call, manual, sess>>

\* the reservation-detail endpoint answered (korail.py 711-727)
DetailReturns(detail) ==
    /\ pay_pc = "detail"
    /\ LET c2 == hydrate_from_payload(ctx, detail, TRUE)
       IN /\ ctx' = c2
          /\ kept' = (kept /\ KeptThrough(ctx, scan_items(detail, TRUE), 1))
          /\ seen' = SeenAfter(ctx, detail, TRUE)
          /\ IF NeedContext(c2)
             THEN /\ pay_pc' = "view"
                  /\ queries' = Append(queries, "view")
                  /\ pay_req' = None
                  /\ pay_err' = ""
             ELSE /\ PayFinish(c2)
                  /\ UNCHANGED queries
    /\ UNCHANGED rr
    /\ UNCHANGED <<cfg, pc, exit_code, loop, result, paid, hist, call, manual, sess>>

\* the reservation-overview endpoint answered (korail.py 727-760)
ViewReturns(view) ==
    /\ pay_pc = "view"
    /\ LET c3 == hydrate_from_payload(ctx, view, FALSE)
       IN /\ ctx' = c3
          /\ kept' = (kept /\ KeptThrough(ctx, scan_items(view, FALSE), 1))
          /\ seen' = SeenAfter(ctx, view, FALSE)
          /\ PayFinish(c3)
    /\ UNCHANGED <<queries, rr>>
    /\ UNCHANGED <<cfg, pc, exit_code, loop, result, paid, hist, call, manual, sess>>

AfterQueryError_TryNext(endpoint) == IF endpoint = "detail" THEN "view" ELSE "raised"
\* korail.py 711, 727: pay catches no error of _api_call; it leaves pay
AfterQueryError(endpoint) == "raised"

\* _api_call raised KorailError for a reservation endpoint (korail.py 711, 727)
QueryFails ==
    /\ pay_pc \in {"detail", "view"}
    /\ pay_pc' = AfterQueryError(pay_pc)
    /\ pay_err' = "vendor"
    /\ UNCHANGED <<ctx, queries, pay_req, kept, rr, seen>>
    /\ UNCHANGED <<cfg, pc, exit_code, loop, result, paid, hist, call, manual, sess>>

\* the payment request was answered (korail.py 760)
PayAnswered(ok) ==
    /\ pay_pc = "request"
    /\ pay_pc' = (IF ok THEN "returned" ELSE "raised")
    /\ pay_err' = (IF ok THEN "" ELSE "vendor")
    /\ UNCHANGED <<ctx, queries, pay_req, kept, rr, seen>>
    /\ UNCHANGED <<cfg, pc, exit_code, loop, result, paid, hist, call, manual, sess>>

NextPay ==
    \/ pay_pc = "idle" /\ \E reserve_result \in ReserveResults : PayCalled(reserve_result)
    \/ pay_pc = "detail" /\ \E detail \in DetailPayloads : DetailReturns(detail)
    \/ pay_pc = "view" /\ \E view \in ViewPayloads : ViewReturns(view)
    \/ QueryFails
    \/ \E ok \in BOOLEAN : PayAnswered(ok)

SpecPay == InitPure /\ [][NextPay]_vars

(***************************************************************************)
(* SpecVendor: one call per behaviour of an operation that interprets a    *)
(* vendor answer: _do_pay, reservations(), tickets(), the listing of       *)
(* search.                                                                 *)
(***************************************************************************)
\* message texts of a payment answer; "SERVER ERROR" holds none of the
\* failure texts as written
PayMessages ==
    {Absent, "", " ", "gyeolje wallyo", "gyeolje oryu", " gyeolje oryu ",
     "seungin silpae", "gyeolje bulga", "invalid card", "server error",
     "SERVER ERROR"}

\* what the payment endpoint may answer
PayBodies ==
    {BodyEmpty, BodyNotJson, BodyNotObject}
        \cup {BodyObject(MkDict([strResult |-> r, h_msg_txt |-> m, h_msg_cd |-> c])) :
                r \in {Absent, "SUCC", "FAIL"}, m \in PayMessages,
                c \in {Absent, "P058"}}

\* _do_pay(api, reserve_result, smart_ticket), the payment endpoint answering
\* body
CallDoPay(card, body) ==
    /\ call = NoCall
    /\ call' = [fn |-> "do_pay", card |-> card, body |-> body,
                ret |-> do_pay(card, api_call(body))]
    /\ UNCHANGED <<cfg, pc, exit_code, loop, result, paid, hist, api>>

\* the KorailErrors _api_call may raise: no-data codes (one with blanks
\* around it), session-expired codes, another code, none
ErrorMessages ==
    {"Korail API failed", "Invalid JSON", "yeyak naeyeogi eopsseumnida",
     "yeyak hwagin jung"}

VendorCodes ==
    {"", "P100", " P100 ", "WRG000000", "WRD000061", "WRT300005", "P058",
     "WRD000003", "ERR999"}

VendorErrors == {KorailError(m, c) : m \in ErrorMessages, c \in VendorCodes}

\* a value that is absent or not an object or a list, one object, or a list
\* of at most n elements, each an object of objects or not an object
ListingShapes(objects, n) ==
    {ShapeOther}
        \cup {ShapeDict(o) : o \in objects}
        \cup {ShapeList(os) : os \in SeqsUpTo(objects \cup {NotAnObject}, n)}

\* the same with the lists cut down to three
FewShapes(objects, other) ==
    {ShapeOther}
        \cup {ShapeDict(o) : o \in objects}
        \cup {ShapeList(<<o>>) : o \in objects}
        \cup {ShapeList(<<NotAnObject, o, other>>) : o \in objects}

\* rows of a schedule answer, one with a null
ScheduleRows ==
    {[h_trn_no |-> "101", h_dpt_tm_qb |-> "0900", h_gen_rsv_cd |-> "11"],
     [h_trn_no |-> "103", h_dpt_tm_qb |-> "1000", h_gen_rsv_cd |-> Null,
      h_spe_rsv_cd |-> "13"]}

ScheduleAnswers ==
    {[trn_infos |-> t] :
        t \in {NotDict} \cup {Infos(v) : v \in ListingShapes(ScheduleRows, MaxListing)}}

\* legs and journeys of a reservation answer
ReservationLegs ==
    {[h_trn_no |-> "101"],
     [h_trn_no |-> "103", h_pnr_no |-> " ", h_rsv_amt |-> "500"]}

ReservationJrnys ==
    {MkJrny([h_pnr_no |-> "P1", h_rsv_amt |-> "12300"], t) :
        t \in {NotDict} \cup {Infos(v) : v \in ListingShapes(ReservationLegs, MaxLegs)}}

OtherJrny == MkJrny([h_pnr_no |-> "P2"], NotDict)

ReservationAnswers ==
    {MkPayload([strResult |-> "SUCC"], j) :
        j \in {NotDict} \cup {Infos(v) : v \in FewShapes(ReservationJrnys, OtherJrny)}}

\* legs, tickets and entries of a ticket answer
TicketLegs == {[h_trn_no |-> "101", h_rcvd_amt |-> ""]}

Tickets ==
    {[fields |-> f, train_info |-> v] :
        f \in {[h_orgtk_wct_no |-> "W1", h_rcvd_amt |-> ""]},
        v \in ListingShapes(TicketLegs, MaxLegs)}

OtherTicket == [fields |-> [h_orgtk_wct_no |-> "W2"], train_info |-> ShapeOther]

TicketEntries ==
    {[fields |-> [h_pnr_no |-> "P1", h_rcvd_amt |-> "12300"], ticket_list |-> v] :
        v \in FewShapes(Tickets, OtherTicket)}

OtherEntry == [fields |-> [h_pnr_no |-> "P2"], ticket_list |-> ShapeOther]

TicketAnswers == {[reservation_list |-> v] : v \in FewShapes(TicketEntries, OtherEntry)}

\* the outcomes of the requests of tickets(): of the first, and of the second
\* that follows an error of the first
TicketRuns ==
    {<<Returned(d)>> : d \in TicketAnswers}
        \cup {<<e, o>> : e \in VendorErrors,
                         o \in VendorErrors \cup {Returned(d) : d \in TicketAnswers}}

\* api.search(...), the schedule request ending as outcome
CallSearch(outcome) ==
    /\ call = NoCall
    /\ call' = [fn |-> "search", outcome |-> outcome, ret |-> search(outcome)]
    /\ UNCHANGED <<cfg, pc, exit_code, loop, result, paid, hist, api>>

\* api.reservations(), the overview request ending as outcome
CallReservations(outcome) ==
    /\ call = NoCall
    /\ call' = [fn |-> "reservations", outcome |-> outcome,
                ret |-> reservations(outcome)]
    /\ UNCHANGED <<cfg, pc, exit_code, loop, result, paid, hist, api>>

\* api.tickets(), its requests ending as outcomes
CallTickets(outcomes) ==
    /\ call = NoCall
    /\ call' = [fn |-> "tickets", outcomes |-> outcomes, ret |-> tickets(outcomes)]
    /\ UNCHANGED <<cfg, pc, exit_code, loop, result, paid, hist, api>>

\* _hydrate_from_payload(data, include_top_level=True) of pay: the records it
\* passes on, in order
CallScan(data) ==
    /\ call = NoCall
    /\ call' = [fn |-> "scan", data |-> data, ret |-> scan_items(data, TRUE)]
    /\ UNCHANGED <<cfg, pc, exit_code, loop, result, paid, hist, api>>

\* the call sites of the vendor operations
Sites == {"search", "reserve", "reservations", "tickets", "pay"}

\* what the call site does with the KorailError err of its vendor call: it
\* re-authenticates ("expired"), goes on with an empty result ("no_data"), or
\* reports the failure ("generic")
handled_as(site, err) ==
    CASE site = "search" ->                                 \* cli.py 1104-1116
             IF ErrorClass(err.code) = "expired" THEN "expired" ELSE "generic"
      [] site = "reserve" ->                                \* cli.py 1144-1153
             IF ReserveBreaks(err.code) THEN "expired" ELSE "generic"
      [] site = "reservations" ->                           \* cli.py 626-630
             IF reservations(err).raised THEN "generic" ELSE "no_data"
      [] site = "tickets" ->                                \* cli.py 632-635
             IF tickets(<<err, err>>).raised THEN "generic" ELSE "no_data"
      [] site = "pay" ->                                    \* cli.py 896-899
             IF do_pay(Some("card"), err) THEN "none" ELSE "generic"

\* the vendor call of site raised err
CallFails(site, err) ==
    /\ call = NoCall
    /\ call' = [fn |-> "fails", site |-> site, err |-> err,
                ret |-> handled_as(site, err)]
    /\ UNCHANGED <<cfg, pc, exit_code, loop, result, paid, hist, api>>

\* what the fetch of _api_call may return as the text of the response: no
\* text, text that is no JSON, JSON that is no object, and objects with or
\* without a result, a message under either key and a code under either key
ApiBodies ==
    {BodyEmpty, BodyNotJson, BodyNotObject}
        \cup {BodyObject(MkDict([strResult |-> r, h_msg_txt |-> m1, message |-> m2,
                                 h_msg_cd |-> c1, code |-> c2])) :
                r \in {Absent, "SUCC", "FAIL"},
                m1 \in {Absent, "", "gyeolje bulga"},
                m2 \in {Absent, "", "server error"},
                c1 \in {Absent, "", "P058", "WRG000000"},
                c2 \in {Absent, "", "WRD000003"}}

\* _api_call(endpoint, params), the fetch returning body; poll is how main's
\* polling loop takes the error when the call was its search (cli.py 1104-1116)
CallApi(body) ==
    /\ call = NoCall
    /\ call' = [fn |-> "api_call", body |-> body, ret |-> api_call(body),
                poll |-> IF api_call(body).ok THEN "none"
                         ELSE ErrorClass(api_call(body).code)]
    /\ UNCHANGED <<cfg, pc, exit_code, loop, result, paid, hist, api>>

NextVendor ==
    \/ call = NoCall /\ \E card \in Cards, body \in PayBodies : CallDoPay(card, body)
    \/ call = NoCall /\ \E body \in ApiBodies : CallApi(body)
    \/ call = NoCall
          /\ \E outcome \in VendorErrors \cup {Returned(d) : d \in ScheduleAnswers} :
                CallSearch(outcome)
    \/ call = NoCall
          /\ \E outcome \in VendorErrors \cup {Returned(d) : d \in ReservationAnswers} :
                CallReservations(outcome)
    \/ call = NoCall /\ \E outcomes \in TicketRuns : CallTickets(outcomes)
    \/ call = NoCall /\ \E data \in ReservationAnswers : CallScan(data)
    \/ call = NoCall /\ \E site \in Sites, err \in VendorErrors : CallFails(site, err)

SpecVendor == InitPure /\ [][NextVendor]_vars

(***************************************************************************)
(* SpecSession: main from the launch of the browser (cli.py 1050-1052),    *)
(* _ensure_login (cli.py 712-747) and the search, reserve and pay requests *)
(* that follow, one action per probe, manual login and request.  A browser *)
(* session is one manager.start(); the sessions are numbered.              *)
(***************************************************************************)
save_cookies_Nothing(context, files) == files
\* browser.py 68-86: the state of the context, when there is one, is written
\* to disk; files is the set of sessions written so far
save_cookies(context, files) == IF context = 0 THEN files ELSE files \cup {context}

after_manual_login_Ready(h) == "ready"
\* cli.py 738-747: the relaunched headless browser is probed before
\* _ensure_login returns
after_manual_login(h) == IF h THEN "reprobe" ELSE "ready"

\* with BrowserManager(headless=headless) as manager; _ensure_login is called
\* (cli.py 1050-1052)
MainStarts(h) ==
    /\ el_pc = "idle"
    /\ headless' = h
    /\ session' = 1
    /\ el_pc' = "probe"
    /\ UNCHANGED <<probed, n_req, logged, saved>>
    /\ UNCHANGED <<cfg, pc, exit_code, loop, result, paid, hist, call, manual, payv>>

\* api.is_logged_in() of cli.py 714 answered ok; when it did not and the
\* browser is headless, the browser is started again with a window (719-725)
FirstProbe(ok) ==
    /\ el_pc = "probe"
    /\ IF ok
       THEN /\ probed' = probed \cup {session}
            /\ el_pc' = "ready"
            /\ UNCHANGED session
       ELSE /\ session' = (IF headless THEN session + 1 ELSE session)
            /\ el_pc' = "manual"
            /\ UNCHANGED probed
    /\ UNCHANGED <<headless, n_req, logged, saved>>
    /\ UNCHANGED <<cfg, pc, exit_code, loop, result, paid, hist, call, manual, payv>>

\* api.login_manual(timeout_s=300) returned ok (cli.py 727-740): True after
\* wait_for_login_stable saw the probes of this session answer logged in;
\* the cookies are saved and a headless run starts its browser again
ManualLogin(ok) ==
    /\ el_pc = "manual"
    /\ IF ok
       THEN /\ probed' = probed \cup {session}
            /\ logged' = logged \cup {session}
            /\ saved' = save_cookies(session, saved)
            /\ session' = (IF headless THEN session + 1 ELSE session)
            /\ el_pc' = after_manual_login(headless)
            /\ UNCHANGED exit_code
       ELSE /\ el_pc' = "exited"
            /\ exit_code' = sys_exit(1)
            /\ UNCHANGED <<probed, session, logged, saved>>
    /\ UNCHANGED <<headless, n_req>>
    /\ UNCHANGED <<cfg, pc, loop, result, paid, hist, call, manual, payv>>

\* api.is_logged_in() of cli.py 742, on the relaunched session, answered ok
SecondProbe(ok) ==
    /\ el_pc = "reprobe"
    /\ IF ok
       THEN /\ probed' = probed \cup {session}
            /\ el_pc' = "ready"
            /\ UNCHANGED exit_code
       ELSE /\ el_pc' = "exited"
            /\ exit_code' = sys_exit(1)
            /\ UNCHANGED probed
    /\ UNCHANGED <<headless, session, n_req, logged, saved>>
    /\ UNCHANGED <<cfg, pc, loop, result, paid, hist, call, manual, payv>>

\* a search, reserve or pay request is issued on the session in use (cli.py
\* 1062, 1102, 1146, 1166); when a search or reserve fails with a
\* session-expired code main calls _ensure_login (1070, 1109, 1151)
Request(kind, expired) ==
    /\ el_pc = "ready"
    /\ n_req < MaxRequests
    /\ n_req' = n_req + 1
    /\ el_pc' = (IF expired /\ kind # "pay" THEN "probe" ELSE "ready")
    /\ UNCHANGED <<headless, session, probed, logged, saved>>
    /\ UNCHANGED <<cfg, pc, exit_code, loop, result, paid, hist, call, manual, payv>>

NextSession ==
    \/ \E h \in BOOLEAN : MainStarts(h)
    \/ \E ok \in BOOLEAN : FirstProbe(ok)
    \/ \E ok \in BOOLEAN : ManualLogin(ok)
    \/ \E ok \in BOOLEAN : SecondProbe(ok)
    \/ \E kind \in {"search", "reserve", "pay"}, expired \in BOOLEAN :
          Request(kind, expired)

SpecSession == InitPure /\ [][NextSession]_vars

(***************************************************************************)
(* Properties of the polling loop under failing searches (SpecErrors).     *)
(***************************************************************************)
\* C1: once the latest ErrorCap (5) searches in a row have failed with a
\* transient error the run is stopped as fatal, so no sixth one follows; the run
\* is fatal only right after a transient search error with at least 5 failed
\* searches since the last search that returned; and right after a search that
\* returned, consecutive_errors is 0.
C1_FatalAtFifthTransient ==
    /\ transStreak <= ErrorCap
    /\ transStreak >= ErrorCap => pc = "fatal"
    /\ pc = "fatal" => failsSinceOk >= 5 /\ last_req = ReqSearch("error")
    /\ last_req = ReqSearch("ok") => consecutive_errors = 0

\* C1 witness: a search returned, then five transient failures in a row ended the run
C1_Witness == pc = "fatal" /\ transStreak = 5 /\ okSearches = 1 /\ nSearch = 6

\* C2 (as claimed): the search issued as the retry of a session-expired search
\* finds attempt at the value it had when the failed search was issued.
C2_RetryNotCounted ==
    [][(last_req = ReqSearch("expired") /\ nSearch' = nSearch + 1)
         => attempt' = attempt]_vars

\* C3 (as claimed): the budget ends the loop exactly when max_attempts > 0
\* searches have returned.
C3_BudgetCountsReturnedSearches ==
    pc = "exhausted" => max_attempts > 0 /\ okSearches = max_attempts

\* C4 (as claimed): a search that fails with a session-expired code leaves
\* consecutive_errors unchanged; only a transient search error increments it.
C4_ExpiredLeavesCounter ==
    [][/\ (nSearch' = nSearch + 1 /\ last_req' = ReqSearch("expired"))
            => consecutive_errors' = consecutive_errors
       /\ consecutive_errors' > consecutive_errors
            => (nSearch' = nSearch + 1 /\ last_req' = ReqSearch("error"))]_vars

(***************************************************************************)
(* Properties of the polling loop under varying listings (Spec).           *)
(***************************************************************************)
DistinctKeys(trains) ==
    \A i, j \in DOMAIN trains : i < j => train_key(trains[i]) # train_key(trains[j])

TriedTrains == [i \in DOMAIN tried |-> tried[i].train]

\* C5: at most one api.reserve call returns per run; once one has, main is
\* paying, done or interrupted, and no step issues a search or a reserve.
C5_NothingAfterReservation ==
    /\ [](nReserveOk <= 1)
    /\ [](nReserveOk = 1 => pc \in {"pay", "done", "interrupted"} /\ result # None)
    /\ [][nReserveOk > 0 =>
            /\ nSearch' = nSearch
            /\ nReserveOk' = nReserveOk
            /\ last_req' = last_req
            /\ tried' = <<>>]_vars

\* C5 witness: the second search led to a reservation, which was paid
C5_Witness == pc = "done" /\ nReserveOk = 1 /\ nSearch = 2 /\ paid

\* C6 (as claimed): in one iteration reserve is never called twice for trains of
\* the same identity tuple, whatever the listing and the selected keys.
C6_NeverSameIdentityTwice == DistinctKeys(TriedTrains)

\* C6 (amended): the reserve calls of an iteration go through the candidate list
\* in order, each position at most once, to exactly the eligible candidates up
\* to the current one; no identity tuple is tried twice when the candidate list
\* holds none twice, which is so whenever the caller selected pairwise distinct
\* keys, even if rows of the listing share an identity.
C6_InOrderOncePerPosition ==
    /\ \A i, j \in DOMAIN tried : i < j => tried[i].pos < tried[j].pos
    /\ \A i \in DOMAIN tried :
          /\ tried[i].pos \in DOMAIN candidate_trains
          /\ tried[i].train = candidate_trains[tried[i].pos]
    /\ pc = "reserve" =>
          {tried[i].pos : i \in DOMAIN tried}
             = {p \in 1..idx : seat_available(candidate_trains[p], seat)}
    /\ DistinctKeys(candidate_trains) => DistinctKeys(TriedTrains)
    /\ (target_trains # None /\ \A i, j \in DOMAIN The(target_trains) :
                                   i < j => The(target_trains)[i] # The(target_trains)[j])
          => DistinctKeys(TriedTrains)

\* C6 witness: with two distinct keys selected, the first candidate was refused
\* and the second one is being reserved
C6_Witness ==
    /\ pc = "reserve"
    /\ target_trains # None
    /\ Len(tried) = 2
    /\ tried[1].pos = 1 /\ tried[2].pos = 2
    /\ last_req = ReqReserve("error")

\* C7: after a reserve that failed with a session-expired code no candidate is
\* in flight or attempted until the next search; a reserve that fails with any
\* other error is followed by the reserve of the next eligible candidate of the
\* same list, or by the loop head when there is none.
C7_ReserveErrorHandling ==
    /\ [](last_req = ReqReserve("expired") =>
            /\ pc \in {"login_reserve", "poll", "login_failed", "exhausted", "interrupted"}
            /\ tried = <<>>)
    /\ [][(pc = "reserve" /\ last_req' = ReqReserve("error") /\ pc' # "interrupted") =>
            LET later == {j \in (idx + 1)..Len(candidate_trains) :
                             seat_available(candidate_trains[j], seat)}
            IN IF later = {}
               THEN pc' = "poll"
               ELSE /\ pc' = "reserve"
                    /\ candidate_trains' = candidate_trains
                    /\ idx' = Min(later)
                    /\ tried'[Len(tried')].pos = Min(later)]_vars

\* C7 witness: re-authenticated after a session-expired reserve that followed a
\* refused one, main is back at the loop head
C7_Witness ==
    /\ pc = "poll"
    /\ last_req = ReqReserve("expired")
    /\ slept = "poll"
    /\ BudgetLeft

\* C8: after a search that returned rows none of which has a selected key, no
\* reserve is in flight, main slept the poll interval and is at the loop head
\* (or was interrupted, or the budget is used up), the error counter is 0 and
\* the run did not fail.
C8_MissingTargetsIsNonMatch ==
    (/\ target_trains # None
     /\ last_req = ReqSearch("ok")
     /\ last_listing.rows > 0
     /\ ~last_listing.target_hit)
    => /\ pc \in {"poll", "exhausted", "interrupted"}
       /\ pc = "exhausted" => ~BudgetLeft
       /\ tried = <<>>
       /\ candidate_trains = <<>>
       /\ slept = "poll"
       /\ consecutive_errors = 0

\* C8 witness: the listing had rows, none selected, and the loop goes on
C8_Witness ==
    /\ target_trains # None
    /\ last_req = ReqSearch("ok")
    /\ last_listing.rows = 2
    /\ ~last_listing.target_hit
    /\ pc = "poll"
    /\ BudgetLeft

\* the seat class of a reserve call is one the train reports as available
ClassAvailable(c) ==
    IF c.seat_type = "general" THEN c.train.general_code = "11"
    ELSE c.seat_type = "special" /\ c.train.special_code = "11"

\* the seat class _pick_seat is to return for a train under a preference
ClassChosen(c) ==
    /\ seat = "general" => c.seat_type = "general"
    /\ seat = "special" => c.seat_type = "special"
    /\ seat = "standing" => c.seat_type = "general"
    /\ seat = "any" =>
          c.seat_type = (IF c.train.general_code = "11" THEN "general" ELSE "special")

\* C11: every reserve call of main passes the seat class _pick_seat maps the
\* preference to (general to general, special to special, standing to general,
\* any to general when the general code is "11" and to special otherwise), and
\* under preference general, special or any that class has status code "11" in
\* the train reserved; so has the class of the reservation main ends with.
C11_PickedSeatAvailable ==
    /\ \A i \in DOMAIN tried :
          /\ ClassChosen(tried[i])
          /\ seat \in {"general", "special", "any"} => ClassAvailable(tried[i])
    /\ result # None =>
          /\ ClassChosen(The(result))
          /\ seat \in {"general", "special", "any"} => ClassAvailable(The(result))

\* C11 witness: under any, a train with only the special class available is
\* being reserved in the special class
C11_Witness ==
    /\ seat = "any"
    /\ pc = "reserve"
    /\ tried[Len(tried)].seat_type = "special"
    /\ tried[Len(tried)].train.general_code = "13"
    /\ tried[Len(tried)].train.special_code = "11"

(***************************************************************************)
(* Properties of the pure helpers (SpecPure).                              *)
(***************************************************************************)
\* C9: _resolve_targets returns, in the order of the target list, one train of
\* the listing for every target key the listing holds (the last row of that
\* key), and the number of target keys the listing does not hold;
\* len(found) + missing = len(targets), and equal keys resolve to the same train.
C9_ResolveTargets ==
    call.fn = "resolve_targets" =>
        LET trains == call.trains
            targets == call.targets
            found == call.ret.found
            missing == call.ret.missing
            held(key) == KeyPresent(trains, key)
            present == SelectSeq(targets, held)
        IN /\ Len(found) + missing = Len(targets)
           /\ missing = Cardinality({i \in DOMAIN targets : ~held(targets[i])})
           /\ [i \in DOMAIN found |-> train_key(found[i])] = present
           /\ \A i \in DOMAIN found :
                 \E j \in DOMAIN trains :
                    /\ trains[j] = found[i]
                    /\ \A k \in DOMAIN trains :
                          train_key(trains[k]) = train_key(found[i]) => k <= j
           /\ \A i, j \in DOMAIN found :
                 train_key(found[i]) = train_key(found[j]) => found[i] = found[j]

\* C9 witness: two targets resolved against the listing order, reversed
C9_Witness ==
    /\ call.fn = "resolve_targets"
    /\ Len(call.trains) = 2
    /\ train_key(call.trains[1]) # train_key(call.trains[2])
    /\ call.ret.found = <<call.trains[2], call.trains[1]>>

\* C10: _seat_available for any is the disjunction of general and special;
\* general, special and standing hold exactly when the status code of that class
\* (general_code, special_code, raw h_stnd_rsv_cd) is "11".
C10_SeatAvailable ==
    call.fn = "seat_available" =>
        LET t == call.train
            stnd == IF "h_stnd_rsv_cd" \in DOMAIN t.raw THEN t.raw["h_stnd_rsv_cd"] ELSE ""
        IN /\ call.seat = "any" =>
                call.ret = (seat_available(t, "general") \/ seat_available(t, "special"))
           /\ call.seat = "any" =>
                call.ret = (t.general_code = "11" \/ t.special_code = "11")
           /\ call.seat = "general" => call.ret = (t.general_code = "11")
           /\ call.seat = "special" => call.ret = (t.special_code = "11")
           /\ call.seat = "standing" => call.ret = (stnd = "11")

\* C10 witness: any is satisfied by a train whose special class alone is available
C10_Witness ==
    /\ call.fn = "seat_available"
    /\ call.seat = "any"
    /\ call.ret
    /\ call.train.general_code = "13"
    /\ call.train.special_code = "11"

(***************************************************************************)
(* Properties of the login-status probe (SpecProbe).                       *)
(***************************************************************************)
\* the probe of the call was answered with a JSON object
ProbeObject == call.body.kind = "object"

\* the value of a field of the answer, stripped; "" when the field is absent
ProbeField(key) ==
    IF key \in DOMAIN call.body.data THEN Strip(call.body.data[key]) ELSE ""

\* the answer's message holds the no-login text, or both of its words
ProbeMarked ==
    \/ Contains(ProbeField("h_msg_txt"), "rogeuin jeongboga eopsseumnida")
    \/ (Contains(ProbeField("h_msg_txt"), "rogeuin")
          /\ Contains(ProbeField("h_msg_txt"), "eops"))

ProbeSuccessFlag == ProbeField("strResult") \in {"SUCC", "SUCCESS", "Y"}

ProbeValueGood(v) == v \notin {"", "N", "FALSE", "0"}

\* the probe failed: no body, no JSON, no object, or the vendor said FAIL
ProbeFailed == ~ProbeObject \/ ProbeField("strResult") = "FAIL"

\* C12: is_logged_in is false for every answer whose message holds the no-login
\* marker (the text itself, or both its words), whatever strResult, the identity
\* fields and the login flags are.
C12_MarkerMeansLoggedOut ==
    (call.fn = "is_logged_in" /\ ProbeObject /\ ProbeMarked) => call.ret = FALSE

\* C12 witness: an answer with the marker, strResult SUCC, a member number and
\* a positive login flag was judged not logged in
C12_Witness ==
    /\ call.fn = "is_logged_in"
    /\ ProbeObject
    /\ ProbeField("h_msg_txt") = "rogeuin sesyeoni eopseum"
    /\ ProbeField("strResult") = "SUCC"
    /\ ProbeField("strMbCrdNo") = "1234"
    /\ ProbeField("loginYn") = "Y"
    /\ call.ret = FALSE

\* C13 (as claimed): is_logged_in is true only if the message holds no marker
\* and either strResult is positive with an identity field (strMbCrdNo,
\* strCustNm, mbCrdNo) present and not a placeholder, or loginYn / isLogin is
\* positive.
C13_TrueOnlyWithIdentityOrFlag ==
    (call.fn = "is_logged_in" /\ call.ret = TRUE) =>
        /\ ProbeObject
        /\ ~ProbeMarked
        /\ \/ /\ ProbeSuccessFlag
              /\ \E key \in {"strMbCrdNo", "strCustNm", "mbCrdNo"} :
                    ProbeValueGood(ProbeField(key))
           \/ \E key \in {"loginYn", "isLogin"} :
                 ProbeValueGood(Upper(ProbeField(key)))

\* C14 (as claimed): is_logged_in is true for every answer with a positive
\* strResult and a member number that is present and not a placeholder.
C14_SuccessWithMemberId ==
    (/\ call.fn = "is_logged_in"
     /\ ProbeObject
     /\ ProbeSuccessFlag
     /\ \E key \in {"strMbCrdNo", "mbCrdNo"} : ProbeValueGood(ProbeField(key)))
    => call.ret = TRUE

\* C14 (amended): is_logged_in is true for every answer with a positive
\* strResult and a member number that is present and not a placeholder, provided
\* the message does not hold the no-login marker.
C14_SuccessWithMemberIdUnmarked ==
    (/\ call.fn = "is_logged_in"
     /\ ProbeObject
     /\ ~ProbeMarked
     /\ ProbeSuccessFlag
     /\ \E key \in {"strMbCrdNo", "mbCrdNo"} : ProbeValueGood(ProbeField(key)))
    => call.ret = TRUE

\* C14 witness: strResult Y, a member number, negative login flags, a message
\* that names login without the marker: logged in
C14_Witness ==
    /\ call.fn = "is_logged_in"
    /\ ProbeObject
    /\ ProbeField("h_msg_txt") = "rogeuin doeeotseumnida"
    /\ ProbeField("strResult") = "Y"
    /\ ProbeField("mbCrdNo") = "5678"
    /\ ProbeField("strMbCrdNo") = "N"
    /\ ProbeField("loginYn") = "n"
    /\ ProbeField("isLogin") = "0"
    /\ call.ret = TRUE

\* C15: when the probe fails (empty body, body that is not JSON, JSON that is
\* not an object, strResult FAIL) is_logged_in returns a value, and it is false.
C15_FailedProbeIsLoggedOut ==
    (call.fn = "is_logged_in" /\ ProbeFailed) =>
        /\ call.ret \in BOOLEAN
        /\ call.ret = FALSE

\* C15 witness: a FAIL answer with a member number and a positive login flag,
\* without the marker, was judged not logged in
C15_Witness ==
    /\ call.fn = "is_logged_in"
    /\ ProbeObject
    /\ ProbeField("strResult") = "FAIL"
    /\ ~ProbeMarked
    /\ ProbeField("strMbCrdNo") = "1234"
    /\ ProbeField("loginYn") = "Y"
    /\ call.ret = FALSE

\* the profile fields login_profile is to report for the answer
ProbeFirstGood(keys) ==
    IF \A i \in DOMAIN keys : ~ProbeValueGood(ProbeField(keys[i])) THEN ""
    ELSE ProbeField(keys[CHOOSE i \in DOMAIN keys :
                            /\ ProbeValueGood(ProbeField(keys[i]))
                            /\ \A j \in 1..(i - 1) : ~ProbeValueGood(ProbeField(keys[j]))])

ProbeIdentity ==
    [member_no |-> ProbeFirstGood(<<"strMbCrdNo", "mbCrdNo", "strCustNo", "custNo">>),
     name |-> ProbeFirstGood(<<"strCustNm", "custNm", "h_cust_nm", "strUserNm">>),
     login_id |-> ProbeFirstGood(<<"strCustId", "custId", "userId">>)]

ProbeAnonymous == ProbeIdentity = [member_no |-> "", name |-> "", login_id |-> ""]

\* C17 (as claimed): login_profile returns None only when the answer holds the
\* no-login marker, and a profile for every answer without it.
C17_NoneOnlyOnMarker ==
    call.fn = "login_profile" =>
        /\ call.ret = None => (ProbeObject /\ ProbeMarked)
        /\ (ProbeObject /\ ~ProbeMarked) => call.ret # None

\* C17 (amended): login_profile returns None exactly when the probe failed, or
\* the answer holds the no-login marker, or it holds no usable identity field
\* and strResult is not positive; otherwise it returns the profile made of the
\* first usable member number, name and login id of the answer, each "" when
\* there is none.
C17_ProfileOrNone ==
    call.fn = "login_profile" =>
        IF \/ ProbeFailed
           \/ ProbeMarked
           \/ (ProbeAnonymous /\ ~ProbeSuccessFlag)
        THEN call.ret = None
        ELSE call.ret = {ProbeIdentity}

\* C17 witness: an answer without marker, identity or positive strResult, but
\* with a positive login flag, gave no profile
C17_Witness ==
    /\ call.fn = "login_profile"
    /\ ProbeObject
    /\ ~ProbeMarked
    /\ ProbeField("strResult") = "N"
    /\ ProbeField("loginYn") = "Y"
    /\ ProbeAnonymous
    /\ call.ret = None

(***************************************************************************)
(* Properties of login_manual (SpecLogin).                                 *)
(***************************************************************************)
\* C16: login_manual returns True only when the latest two probes, at least,
\* both found the session logged in; a probe that does not resets the streak to
\* 0; login_manual returns False only once its deadline has passed; and it is
\* never still probing WAIT_TIMEOUT + WAIT_INTERVAL ticks after its deadline, so
\* a login that never becomes stable ends with False.
C16_StableLoginOrTimeout ==
    /\ [](lm_ret = Some(TRUE) => (true_run >= 2 /\ n_probes >= 2 /\ lm_pc = "returned"))
    /\ [](lm_ret = Some(FALSE) => (now >= lm_deadline /\ lm_pc = "returned"))
    /\ [](lm_pc = "returned" => lm_ret \in {Some(TRUE), Some(FALSE)})
    /\ [](lm_pc = "probe" => now < lm_deadline + WAIT_TIMEOUT + WAIT_INTERVAL)
    /\ [](streak <= true_run /\ streak < 2)
    /\ [][(n_probes' = n_probes + 1 /\ true_run' = 0) => streak' = 0]_vars
    /\ [][lm_pc = "probe" => now' > now \/ lm_pc' = "returned"]_vars

\* C16 witness: logged in, logged out, then logged in twice in a row: True
C16_Witness ==
    /\ lm_ret = Some(TRUE)
    /\ n_probes = 4
    /\ true_run = 2
    /\ page = "SEARCH_URL"

\* C16 witness: the deadline passed with the last two probes logged in, yet in
\* two calls of wait_for_login_stable: False
C16_WitnessTimeout ==
    /\ lm_ret = Some(FALSE)
    /\ true_run >= 2
    /\ lm_deadline > 0

(***************************************************************************)
(* Properties of pay (SpecPay).                                            *)
(***************************************************************************)
\* pay got past its check of the confirmation number
PayStarted == pay_pc # "idle" /\ pay_err # "pnr"

\* C18 (as claimed): when the reservation response carries amount and key only
\* inside legs that name the reservation, pay sends the payment request
\* without querying the detail or the overview endpoint.
C18_LegOnlyNeedsNoQuery ==
    (PayStarted /\ rr.leg_only) => (queries = <<>> /\ pay_req # None)

\* C18 (amended): when the reservation response carries amount and key only
\* inside legs that name the reservation, and the scan of that response also
\* finds the change number and both job sequence numbers, pay sends the payment
\* request without querying the detail or the overview endpoint, and returns
\* unless the vendor refuses the payment; when one of the three is not found,
\* pay queries the detail endpoint before any payment request.
C18_LegOnlyAndRestNeedsNoQuery ==
    /\ (PayStarted /\ rr.leg_only /\ rr.rest) =>
          /\ queries = <<>>
          /\ pay_req # None
          /\ pay_pc \in {"request", "returned", "raised"}
          /\ pay_pc = "raised" => pay_err = "vendor"
          /\ The(pay_req).hidMnsStlAmt1 \in {"12300", "7700", "23400"}
          /\ The(pay_req).hidWctNo \in {"W1", "W3"}
    /\ (PayStarted /\ rr.leg_only /\ ~rr.rest) =>
          /\ queries # <<>>
          /\ queries[1] = "detail"

\* C18 witness: amount and key came from a leg of the reservation, the rest
\* from the journey and the top level; paid without a query
C18_Witness ==
    /\ pay_pc = "returned"
    /\ rr.leg_only
    /\ rr.rest
    /\ queries = <<>>
    /\ The(pay_req).hidMnsStlAmt1 = "12300"
    /\ The(pay_req).hidWctNo = "W1"
    /\ The(pay_req).hidRsvChgNo = "001"

\* C19: a payment request is sent only with an amount that is not empty or "0"
\* and a key that is not empty, both as resolved in the context, and only if
\* some record scanned so far carried a usable amount and one a key; when pay
\* raises for a missing amount or key it has queried both endpoints and sent no
\* payment request; and after the overview answer, pay without a carried amount
\* or key has failed so.
C19_NoPaymentWithoutAmountAndKey ==
    /\ pay_req # None =>
          /\ ctx.price \notin {"", "0"}
          /\ ctx.wct_no # ""
          /\ The(pay_req).hidMnsStlAmt1 = ctx.price
          /\ The(pay_req).hidWctNo = ctx.wct_no
          /\ The(pay_req).hidPnrNo = ctx.pnr_no
          /\ seen.amount /\ seen.key
    /\ pay_pc \in {"request", "returned"} => pay_req # None
    /\ pay_err \in {"amount", "key", "pnr"} =>
          /\ pay_pc = "raised"
          /\ pay_req = None
    /\ pay_err \in {"amount", "key"} => queries = <<"detail", "view">>
    /\ (PayStarted /\ pay_pc \notin {"detail", "view"} /\ ~(seen.amount /\ seen.key)) =>
          /\ pay_pc = "raised"
          /\ pay_req = None
          /\ pay_err \in {"amount", "key", "vendor"}

\* C19 witness: no source carried an amount; pay raised after both queries
C19_Witness ==
    /\ pay_pc = "raised"
    /\ pay_err = "amount"
    /\ ~seen.amount
    /\ queries = <<"detail", "view">>
    /\ pay_req = None

\* C20: within a payload no record replaces a value of the context that was
\* not missing (kept), and no step of pay changes a field of the context that
\* held a value: an amount that is not empty or "0", a key or change number
\* that is not empty, a job sequence number that is not empty or "000000".
C20_FilledFieldsStay ==
    /\ [](kept)
    /\ [][PayStarted => Unreplaced(ctx, ctx')]_vars
    /\ [][PayStarted => ctx'.pnr_no = ctx.pnr_no]_vars

\* C20 witness: the key came from the reservation response, the amount from
\* the detail endpoint, the change number from the overview endpoint, whose
\* records carried other amounts and keys
C20_Witness ==
    /\ pay_pc = "request"
    /\ queries = <<"detail", "view">>
    /\ ctx.wct_no = "W0"
    /\ ctx.price = "6600"
    /\ ctx.rsv_chg_no = "002"
    /\ kept

(***************************************************************************)
(* C21: every value pay takes from a journey record or a leg comes from a  *)
(* record whose confirmation number is absent or the reservation's own: no *)
(* payment request is sent after a field of the context was filled from a  *)
(* nested record that carries the confirmation number of another           *)
(* reservation.                                                            *)
(***************************************************************************)
C21_NothingFromOtherReservation == pay_req # None => seen.foreign = {}

(***************************************************************************)
(* C22: every value of the payment request was read from the reservation   *)
(* response, the detail endpoint or the overview endpoint: a request is    *)
(* sent only when some scanned record carried the amount, the key, the     *)
(* change number and each job sequence number.                             *)
(***************************************************************************)
C22_SubmittedValuesWereRead ==
    pay_req # None =>
        /\ seen.amount
        /\ seen.key
        /\ seen.chg
        /\ seen.sqno1
        /\ seen.sqno2

(***************************************************************************)
(* Properties of the operations that interpret a vendor answer             *)
(* (SpecVendor).                                                           *)
(***************************************************************************)
\* the vendor answered call.body with an object that is not a failure
AnswerReturned ==
    /\ call.body.kind = "object"
    /\ ("strResult" \notin DOMAIN call.body.data \/ call.body.data["strResult"] # "FAIL")

\* the answer's message holds one of the five failure texts
AnswerHasFailureText ==
    /\ call.body.kind = "object"
    /\ "h_msg_txt" \in DOMAIN call.body.data
    /\ call.body.data["h_msg_txt"] \in
          {"gyeolje oryu", " gyeolje oryu ", "seungin silpae", "gyeolje bulga",
           "invalid card", "server error"}

C24_ExpiredCodeMeansExpiredEverywhere ==
    (call.fn = "fails" /\ call.err.code \in {"P058", "WRT300004", "WRD000003"})
        => call.ret = "expired"

\* the error carries a no-data code or the no-reservation message
NoDataAnswer(err) ==
    \/ err.code \in {"P100", "WRG000000", "WRD000061", "WRT300005"}
    \/ err.msg = "yeyak naeyeogi eopsseumnida"

(***************************************************************************)
(* C25: reservations() and tickets() return the empty list when the vendor *)
(* call fails with a no-data code or the no-reservation message, and       *)
(* tickets() does so whichever of its requests was answered that way.      *)
(***************************************************************************)
C25_NoDataIsEmptyList ==
    /\ (call.fn = "reservations" /\ ~call.outcome.ok /\ NoDataAnswer(call.outcome))
          => call.ret = Gave(<<>>)
    /\ call.fn = "tickets" =>
          \A i \in DOMAIN call.outcomes :
              (~call.outcomes[i].ok /\ NoDataAnswer(call.outcomes[i]))
                  => call.ret = Gave(<<>>)

C25_Witness ==
    /\ call.fn = "reservations"
    /\ call.outcome = KorailError("yeyak naeyeogi eopsseumnida", "ERR999")
    /\ call.ret = Gave(<<>>)

(***************************************************************************)
(* C26: when every vendor request of search, reservations() or tickets()   *)
(* fails with an error that is not a no-data answer, the operation raises  *)
(* that error and returns no list.                                         *)
(***************************************************************************)
C26_FailureIsRaised ==
    /\ (call.fn \in {"search", "reservations"} /\ ~call.outcome.ok
            /\ ~is_no_result(call.outcome))
          => call.ret = Raised(call.outcome)
    /\ (call.fn = "tickets"
            /\ \A i \in DOMAIN call.outcomes :
                  ~call.outcomes[i].ok /\ ~is_no_result(call.outcomes[i]))
          => call.ret.raised

\* the objects a value lists: itself when it is one object, its elements that
\* are objects when it is a list
ListedObjects(v) ==
    IF v.shape = "dict" THEN <<v.item>>
    ELSE IF v.shape # "list" THEN <<>>
    ELSE LET at == {i \in DOMAIN v.items : v.items[i] # NotAnObject}
             pos(k) == CHOOSE i \in at : Cardinality({j \in at : j < i}) = k - 1
         IN [k \in 1..Cardinality(at) |-> v.items[pos(k)]]

(***************************************************************************)
(* C29: search returns no train for an absent or non-object listing, one   *)
(* for a single object and one per object row of a list, in listing order; *)
(* the legs of a reservation, the legs of a ticket and the legs scanned by *)
(* pay are listed in the same way.                                         *)
(***************************************************************************)
C29_ListingsNormalized ==
    /\ (call.fn = "search" /\ call.outcome.ok) =>
          LET t == call.outcome.data.trn_infos
              rows == IF t.is_dict THEN ListedObjects(t.info) ELSE <<>>
          IN /\ ~call.ret.raised
             /\ Len(call.ret.value) = Len(rows)
             /\ \A k \in DOMAIN rows :
                   call.ret.value[k].train_no = rows[k]["h_trn_no"]
    /\ (call.fn = "reservations" /\ call.outcome.ok
            /\ call.outcome.data.jrny_infos.is_dict
            /\ call.outcome.data.jrny_infos.info.shape = "dict"
            /\ call.outcome.data.jrny_infos.info.item.train_infos.is_dict) =>
          LET legs == ListedObjects(
                          call.outcome.data.jrny_infos.info.item.train_infos.info)
          IN legs # <<>> =>
                /\ Len(call.ret.value) = Len(legs)
                /\ \A k \in DOMAIN legs :
                      call.ret.value[k]["h_trn_no"] = legs[k]["h_trn_no"]
    /\ (call.fn = "tickets" /\ call.outcomes[1].ok
            /\ call.outcomes[1].data.reservation_list.shape = "dict"
            /\ call.outcomes[1].data.reservation_list.item.ticket_list.shape = "dict") =>
          LET legs == ListedObjects(
                          call.outcomes[1].data.reservation_list.item.ticket_list.item.train_info)
          IN legs # <<>> =>
                /\ Len(call.ret.value) = Len(legs)
                /\ \A k \in DOMAIN legs :
                      call.ret.value[k]["h_trn_no"] = legs[k]["h_trn_no"]
    /\ (call.fn = "scan"
            /\ call.data.jrny_infos.is_dict
            /\ call.data.jrny_infos.info.shape = "dict"
            /\ call.data.jrny_infos.info.item.train_infos.is_dict) =>
          LET legs == ListedObjects(call.data.jrny_infos.info.item.train_infos.info)
          IN /\ Len(call.ret) = 2 + Len(legs)
             /\ \A k \in DOMAIN legs : call.ret[2 + k].item = legs[k]

C29_Witness ==
    /\ call.fn = "search"
    /\ call.outcome.ok
    /\ call.outcome.data.trn_infos.is_dict
    /\ call.outcome.data.trn_infos.info.shape = "list"
    /\ Len(call.outcome.data.trn_infos.info.items) = 2
    /\ call.outcome.data.trn_infos.info.items[1] = NotAnObject
    /\ Len(call.ret.value) = 1
    /\ call.ret.value[1].train_no = "103"

(***************************************************************************)
(* Properties of how a run of the polling loop ends (Spec, SpecErrors).    *)
(***************************************************************************)
(***************************************************************************)
(* C27: an interrupt ends the run only between iterations: while a reserve *)
(* request is sent and not yet answered, or _do_pay is at work, the next   *)
(* step of the run is never its end by the interrupt.                      *)
(***************************************************************************)
C27_NoInterruptInFlight ==
    [][(pc \in {"reserve", "pay"}) => (pc' # "interrupted")]_vars

(***************************************************************************)
(* C28: a transient search error that brings consecutive_errors to the cap *)
(* ends the run with exit status 1, and so does _ensure_login giving up;   *)
(* from there on nothing happens any more, and no run that ended this way  *)
(* has exit status 0.                                                      *)
(***************************************************************************)
C28_CapAndLoginTimeoutExitNonZero ==
    /\ [][(nSearch' = nSearch + 1 /\ last_req' = ReqSearch("error")
              /\ consecutive_errors' >= ErrorCap)
            => (pc' = "fatal" /\ exit_code' = Some(1))]_vars
    /\ [](pc \in {"fatal", "login_failed"} => exit_code = Some(1))
    /\ [][(pc \in {"fatal", "login_failed"}) => (UNCHANGED vars)]_vars
    /\ [](exit_code = Some(1) => pc \in {"fatal", "login_failed"})

C28_Witness == pc = "login_failed" /\ exit_code = Some(1) /\ nSearch = 3

C28_WitnessCap ==
    pc = "fatal" /\ exit_code = Some(1) /\ consecutive_errors = 5 /\ nSearch = 5

(***************************************************************************)
(* Properties of main and _ensure_login (SpecSession).                     *)
(***************************************************************************)
(***************************************************************************)
(* C30: a search, reserve or pay request is issued only on a browser       *)
(* session on which a login-status probe has reported authenticated; this  *)
(* holds of the session started after a manual login as of the first.      *)
(***************************************************************************)
C30_RequestsOnlyOnProbedSession ==
    [][(n_req' = n_req + 1) => (session \in probed)]_vars

C30_Witness ==
    /\ headless
    /\ session = 3
    /\ probed = {2, 3}
    /\ n_req = 1


(***************************************************************************)
(* Properties of one poll iteration (Spec).                                *)
(***************************************************************************)
\* C31: a search that returns an empty listing is not an error: the step that
\* takes its answer sets consecutive_errors to 0, calls no reserve, sleeps the
\* normal poll interval (not the doubled backoff), ends no run, and leaves main
\* at the loop head for the next iteration.
C31_EmptyListingIsNoError ==
    [][(nSearch' = nSearch + 1 /\ last_req' = ReqSearch("ok") /\ last_listing'.rows = 0)
         => (/\ consecutive_errors' = 0
             /\ tried' = <<>>
             /\ candidate_trains' = <<>>
             /\ slept' = "poll"
             /\ pc' = "poll"
             /\ exit_code' = exit_code)]_vars

\* C31 witness: a failed search, then a search that returned no rows; the
\* counter is back at 0 and the loop goes on
C31_Witness ==
    /\ nSearch = 2
    /\ okSearches = 1
    /\ last_req = ReqSearch("ok")
    /\ last_listing.rows = 0
    /\ consecutive_errors = 0
    /\ slept = "poll"
    /\ pc = "poll"
    /\ BudgetLeft

\* the status codes of a train that the seat preference asks about
PreferenceCodes(train) ==
    IF seat = "general" THEN {train.general_code}
    ELSE IF seat = "special" THEN {train.special_code}
    ELSE IF seat = "standing" THEN {RawGet(train.raw, "h_stnd_rsv_cd", "")}
    ELSE {train.general_code, train.special_code}

\* C32: every train api.reserve is called for in an iteration is a row of the
\* listing the search of that iteration returned, and a status code the seat
\* preference asks about is "11" in that row; a row whose codes for the
\* preference are sold out is never reserved, its waiting list open or not.
\* The rows of an iteration are dropped before the next search is issued.
C32_ReserveOnlyAvailableOfThisListing ==
    /\ [](\A i \in DOMAIN tried :
             /\ \E k \in DOMAIN listing : listing[k] = tried[i].train
             /\ RSV_AVAILABLE \in PreferenceCodes(tried[i].train)
             /\ PreferenceCodes(tried[i].train) # {RSV_SOLD_OUT})
    /\ [](pc = "reserve" => tried # <<>> /\ last_listing.rows = Len(listing))
    /\ [][nSearch' = nSearch + 1 =>
             listing = <<>> /\ candidate_trains = <<>> /\ tried = <<>>]_vars

\* C32 witness: under preference general the listing held a row with the
\* general class sold out and the waiting list open, then a row with the
\* general class available: reserve is called for the second row only
C32_Witness ==
    /\ seat = "general"
    /\ pc = "reserve"
    /\ Len(listing) = 2
    /\ listing[1].general_code = RSV_SOLD_OUT
    /\ has_waiting_list(listing[1])
    /\ Len(tried) = 1
    /\ tried[1].train = listing[2]

\* the payment main asked for failed: api.pay raised, or its answer carries a
\* failure message
PaymentFailed ==
    /\ call.fn = "main_pay"
    /\ call.card # None
    /\ \/ ~call.outcome.ok
       \/ call.outcome.ok /\ call.outcome.data["h_msg_txt"] = "seungin silpae"

\* C33: when the payment fails after a reservation was made (incomplete payment
\* data, a vendor error or a failure message in the answer), main ends the run
\* with the reservation it made and paid = False: the step issues no search and
\* no reserve, leaves the reservation as it is, and nothing follows it.
C33_FailedPaymentEndsRunUnpaid ==
    /\ [][(pc = "pay" /\ pc' # "interrupted" /\ PaymentFailed') =>
            (/\ pc' = "done"
             /\ ~paid'
             /\ result # None /\ result' = result
             /\ nSearch' = nSearch
             /\ nReserveOk' = nReserveOk
             /\ last_req' = last_req
             /\ tried' = <<>>
             /\ exit_code' # None)]_vars
    /\ [][(pc = "done") => (pc' = "done" /\ result' = result /\ paid' = paid
                              /\ nSearch' = nSearch /\ last_req' = last_req)]_vars

\* C33 witness: the reservation was made, api.pay raised for a missing amount,
\* and the run is over with the reservation unpaid
C33_Witness ==
    /\ pc = "done"
    /\ result # None
    /\ ~paid
    /\ call.fn = "main_pay"
    /\ call.outcome = KorailError("Unable to determine payment amount.", "")
    /\ nReserveOk = 1

\* C34: every session a manual login succeeded on has been written to disk by
\* save_cookies by the time _ensure_login goes on, so before the next search,
\* reserve or pay request is issued; save_cookies writes only in a step in
\* which a manual login succeeded, and the step in which the login times out
\* writes nothing.
C34_SavedAfterEveryManualLogin ==
    /\ [](logged = saved)
    /\ [][(n_req' = n_req + 1) => (logged \subseteq saved)]_vars
    /\ [][(saved' # saved) => (el_pc = "manual" /\ logged' # logged)]_vars
    /\ [][(el_pc = "manual" /\ el_pc' = "exited") => (saved' = saved)]_vars

\* C34 witness: the saved session was accepted, a request failed with a
\* session-expired code, the probe said logged out, the manual login in the
\* window of session 2 succeeded, and a request was issued on session 3
C34_Witness ==
    /\ headless
    /\ n_req = 2
    /\ logged = {2}
    /\ saved = {2}
    /\ probed = {1, 2, 3}
    /\ el_pc = "ready"

\* C34 witness: the manual login timed out and nothing was written
C34_WitnessTimeout ==
    /\ el_pc = "exited"
    /\ exit_code = Some(1)
    /\ logged = {}
    /\ saved = {}
    /\ n_req = 1

(***************************************************************************)
(* Properties of _api_call (SpecVendor).                                   *)
(***************************************************************************)
\* what the vendor gave under key k1, or else under key k2: "" when neither
\* key carries a text
VendorGave(d, k1, k2) ==
    IF k1 \in DOMAIN d /\ d[k1] # "" THEN d[k1]
    ELSE IF k2 \in DOMAIN d /\ d[k2] # "" THEN d[k2]
    ELSE ""

\* C35: _api_call raises for a body whose result field is FAIL, with the
\* vendor's message and code as they came (the message "Korail API failed" when
\* the vendor gave none, no code when it gave none); it raises without a code
\* for an empty body, a body that is no JSON and JSON that is no object, and
\* the polling loop takes an error without a code as transient; every other
\* body is returned as it is.
C35_FailingCallsAreClassified ==
    call.fn = "api_call" =>
        LET b == call.body
            r == call.ret
            failed == b.kind = "object" /\ "strResult" \in DOMAIN b.data
                         /\ b.data["strResult"] = "FAIL"
        IN /\ b.kind # "object" =>
                 ~r.ok /\ r.msg # "" /\ r.code = "" /\ call.poll = "error"
           /\ failed =>
                 /\ ~r.ok
                 /\ r.msg = (IF VendorGave(b.data, "h_msg_txt", "message") = ""
                             THEN "Korail API failed"
                             ELSE VendorGave(b.data, "h_msg_txt", "message"))
                 /\ r.code = VendorGave(b.data, "h_msg_cd", "code")
                 /\ call.poll = (IF r.code \in {"P058", "WRT300004", "WRD000003"}
                                 THEN "expired" ELSE "error")
           /\ (b.kind = "object" /\ ~failed) => (r.ok /\ r.data = b.data)

\* C35 witness: the vendor failed the call with a message under the second key
\* and a code under the second key
C35_Witness ==
    /\ call.fn = "api_call"
    /\ call.body = BodyObject([strResult |-> "FAIL", h_msg_txt |-> "",
                               message |-> "server error", code |-> "WRD000003"])
    /\ call.ret = KorailError("server error", "WRD000003")
    /\ call.poll = "expired"

\* C35 witness: a body that is no JSON is a transient error of the loop
C35_WitnessParse ==
    /\ call.fn = "api_call"
    /\ call.body = BodyNotJson
    /\ call.ret.code = ""
    /\ call.poll = "error"

\* C36 (as claimed): between two consecutive searches of the polling loop main
\* slept the poll interval or longer, or completed a manual login; no search is
\* issued right after the one before it.
C36_SearchesArePaced ==
    [][(nSearch > 0 /\ nSearch' = nSearch + 1)
         => (slept \in {"poll", "backoff", "login"})]_vars

(***************************************************************************)
(* Properties of the runs with a budget (SpecBudget).                      *)
(***************************************************************************)
\* C37: with --max-attempts N > 0 main issues at most N searches, and every
\* run ends (reserved, budget used up, fatal, login failed or interrupted),
\* whatever the searches, the reserves and _ensure_login answer.
C37_AtMostNSearchesAndTermination ==
    /\ [](max_attempts > 0 /\ nSearch <= max_attempts /\ nSearch = attempt)
    /\ <>(pc \in Terminal /\ exit_code # None)

\* C37 witness: with a budget of 2, a search that returned and a search that
\* failed with a session-expired code used it up
C37_Witness ==
    /\ max_attempts = 2
    /\ nSearch = 2
    /\ okSearches = 1
    /\ last_req = ReqSearch("expired")
    /\ pc = "exhausted"

(***************************************************************************)
(* Properties of pay: amounts and the order of the queries (SpecPay).      *)
(***************************************************************************)
\* an amount whose numeric value is zero, among the amounts of the model
ZeroAmount(v) == v \in {"0", "00", "0000000"}

\* C38 (as claimed): the amount of a payment request never has the numeric
\* value zero; an amount of zero digits only is taken as missing.
C38_NoZeroAmountSubmitted ==
    pay_req # None => ~ZeroAmount(The(pay_req).hidMnsStlAmt1)

\* C39: pay queries the detail endpoint before the overview endpoint, and the
\* overview endpoint only after the detail endpoint answered; when the detail
\* query raises the vendor's error pay ends with it, the overview endpoint not
\* queried and no payment request sent, and nothing follows.
C39_DetailFirstAndItsErrorEndsPay ==
    /\ [](queries \in {<<>>, <<"detail">>, <<"detail", "view">>})
    /\ [](pay_pc = "detail" => queries = <<"detail">>)
    /\ [](pay_pc = "view" => queries = <<"detail", "view">>)
    /\ [][(pay_pc = "detail" /\ pay_err' = "vendor") =>
            (/\ pay_pc' = "raised"
             /\ queries' = <<"detail">>
             /\ pay_req' = None)]_vars
    /\ [][(pay_pc = "raised") => (pay_pc' = "raised" /\ queries' = queries
                                    /\ pay_req' = pay_req)]_vars

\* C39 witness: the detail query failed; pay raised with the overview endpoint
\* not queried and no payment request sent
C39_Witness ==
    /\ pay_pc = "raised"
    /\ pay_err = "vendor"
    /\ queries = <<"detail">>
    /\ pay_req = None

\* C40: when the reservation result carries no confirmation number (h_pnr_no
\* absent or empty) pay raises at once: a reservation endpoint is queried and
\* a payment request is sent only for a context with a confirmation number,
\* and the call that finds none ends raised with no endpoint queried.
C40_NoConfirmationNumberNoRequest ==
    /\ []((queries # <<>> \/ pay_req # None) => ctx.pnr_no # "")
    /\ [](pay_err = "pnr" =>
            (pay_pc = "raised" /\ queries = <<>> /\ pay_req = None /\ ctx = NoCtx))
    /\ [][(pay_pc = "idle" /\ pay_pc' # "idle" /\ ctx'.pnr_no = "") =>
            (pay_pc' = "raised" /\ pay_err' = "pnr" /\ queries' = <<>>
               /\ pay_req' = None)]_vars
    /\ [][(pay_err = "pnr") => (pay_pc' = "raised" /\ queries' = <<>>
                                  /\ pay_req' = None)]_vars

\* C40 witness: pay was called with a result without a confirmation number
C40_Witness ==
    /\ pay_pc = "raised"
    /\ pay_err = "pnr"
    /\ queries = <<>>
    /\ pay_req = None
=============================================================================
